---- MODULE Spec2Model ----
(***************************************************************************)
(* A model of vyb's core: the concurrent annotation scheduler of           *)
(* workspace/project/annotation.go and the gitignore-style pattern matcher *)
(* of workspace/matcher.                                                   *)
(*                                                                         *)
(* Modules of a tree are numbered 1..n level by level, the root is module  *)
(* 1 and every module's parent has a smaller number; a module's child list *)
(* (Module.Modules) holds its children in increasing number.  n = 0 stands *)
(* for a Metadata whose Modules pointer is nil.                            *)
(***************************************************************************)
EXTENDS Integers, Sequences, FiniteSets, TLC

VARIABLES
    n,          \* number of modules of the tree (0: metadata.Modules == nil)
    parent,     \* parent[m]: Module.Parent, 0 for the root
    children,   \* children[m]: Module.Modules, the ordered child list
    ann,        \* ann[m]: Module.Annotation (NoAnn for a nil pointer)
    ann0,       \* ann at the time the operation under study was called
    dones,      \* dones[m]: the module's completion channel, "open" or "closed"
    errCh,      \* the error channel: [buf: sent and unread errors, closed]
    mainpc,     \* position of the goroutine that runs annotate
    retErr,     \* what annotate returned: "none" (not yet), "nil", "err"
    pc,         \* pc[m]: position of the goroutine launched for module m
    waitIdx,    \* waitIdx[m]: index of the wait loop in the awaited list
    outcome,    \* outcome[m]: result of addOrUpdateSelfContainedContext(m)
    launches,   \* launches[m]: number of goroutines launched for module m
    treq,       \* treq[m]: SubModulesPublicContexts of m's request
    tres,       \* tres[m]: the context the Summarizer returned for m
    extCalls,   \* number of whole-tree external-context requests issued
    req,        \* the whole-tree request (ExternalContextsRequest.Modules)
    resp,       \* the whole-tree response (resp.Modules)
    mt,         \* the pattern matcher: its inputs and what it returned
    sel,        \* the file selector: its inputs, the walk, and its results
    bld,        \* the module-tree builder: its input and the tree it builds
    cmd         \* a command: Patch, execute or NewExecutionContext, and its effects

treeVars == <<n, parent, children>>
chanVars == <<dones, errCh>>
mainVars == <<mainpc, retErr>>
taskVars == <<pc, waitIdx, outcome, launches, treq, tres>>
extVars == <<extCalls, req, resp>>

\* The state of the annotation scheduler.
schedVars == <<treeVars, ann, ann0, chanVars, mainVars, taskVars, extVars>>

\* The state of the file selector, of the module-tree builder and of the
\* commands.
libVars == <<sel, bld, cmd>>

vars == <<schedVars, mt, libVars>>

\* Largest number of modules of the trees that are enumerated in full.
MaxModules == 3

(***************************************************************************)
(* Annotations                                                             *)
(***************************************************************************)

\* A nil *Annotation.
NoAnn == [isNil |-> TRUE, ext |-> "", int |-> "", pub |-> ""]

\* &Annotation{}: a present annotation whose three contexts are empty.
EmptyAnn == [isNil |-> FALSE, ext |-> "", int |-> "", pub |-> ""]

\* A present annotation with the given contexts.
Annotation(e, i, p) == [isNil |-> FALSE, ext |-> e, int |-> i, pub |-> p]

\* strings.TrimSpace on the context strings the model uses.
TrimSpace(s) == CASE s = " " -> ""
                  [] s = " e " -> "e"
                  [] OTHER -> s

\* Module.Name: the root is ".", every other module has its own path.
ModNames == <<".", "m2", "m3", "m4", "m5", "m6">>

Name(m) == ModNames[m]

Mods == 1..n

\* The members of a set of numbers in increasing order.
RECURSIVE SortedSeq(_)
SortedSeq(S) ==
    IF S = {} THEN <<>>
    ELSE LET x == CHOOSE y \in S : \A z \in S : y <= z
         IN  <<x>> \o SortedSeq(S \ {x})

\* Module.Modules: the ordered child list of module m.
Modules(m) == children[m]

Range(s) == {s[i] : i \in 1..Len(s)}

\* collectModulesInPostOrder: children first, then the module itself.
RECURSIVE traverse(_)
RECURSIVE traverseAll(_)
traverseAll(s) == IF s = <<>> THEN <<>> ELSE traverse(Head(s)) \o traverseAll(Tail(s))
traverse(m) == traverseAll(Modules(m)) \o <<m>>

collectModulesInPostOrder == traverse(1)

\* collectAllModules: the module itself, then its children (depth first).
RECURSIVE walk(_)
RECURSIVE walkAll(_)
walkAll(s) == IF s = <<>> THEN <<>> ELSE walk(Head(s)) \o walkAll(Tail(s))
walk(m) == <<m>> \o walkAll(Modules(m))

collectAllModules == walk(1)

(***************************************************************************)
(* Channels                                                                *)
(***************************************************************************)

\* A panic in any goroutine ends the process: every goroutine is gone, and
\* annotate, unless it had returned, never returns.
Crash ==
    /\ pc' = [m \in Mods |-> "dead"]
    /\ mainpc' = IF mainpc = "returned" THEN "returned" ELSE "dead"
    /\ UNCHANGED <<treeVars, ann, ann0, chanVars, retErr, waitIdx, outcome, launches,
                   treq, tres, extVars, mt, libVars>>

(***************************************************************************)
(* annotate: the goroutine running annotate itself                         *)
(***************************************************************************)

\* annotate, lines 28-30: nothing to do without a module tree.
AnnotateNil ==
    /\ mainpc = "start"
    /\ n = 0
    /\ mainpc' = "returned"
    /\ retErr' = "nil"
    /\ UNCHANGED <<treeVars, ann, ann0, chanVars, taskVars, extVars, mt, libVars>>

\* Lines 42-46: the completion channels after the pre-close loop.
PreClosed(modules) ==
    [m \in Mods |-> IF m \in Range(modules) /\ ~ann[m].isNil THEN "closed" ELSE "open"]

\* annotate, lines 33-46: make the channels and pre-close the completion
\* channel of every module that has an Annotation.
AnnotateSetup ==
    /\ mainpc = "start"
    /\ n > 0
    /\ errCh' = [buf |-> <<>>, closed |-> FALSE]
    /\ dones' = PreClosed(collectModulesInPostOrder)
    /\ mainpc' = "launch"
    /\ UNCHANGED <<treeVars, ann, ann0, retErr, taskVars, extVars, mt, libVars>>

\* Mutant of Awaited: the last child is not waited for.
Awaited_SkipLast(m) == SubSeq(Modules(m), 1, Len(Modules(m)) - 1)

\* Mutant of Awaited: a global barrier, the task waits for every module that
\* precedes its own in the post-order list.
Awaited_AllEarlier(m) ==
    LET modules == collectModulesInPostOrder
        at == CHOOSE i \in 1..Len(modules) : modules[i] = m
    IN  SubSeq(modules, 1, at - 1)

\* The modules a task waits for before it summarizes its module (line 58).
Awaited(m) == Modules(m)

\* Lines 49-70: the modules that get a goroutine, in launch order: those of
\* the post-order list without Annotation.
RECURSIVE ToLaunch(_)
ToLaunch(modules) ==
    IF modules = <<>> THEN <<>>
    ELSE IF ~ann[Head(modules)].isNil
         THEN ToLaunch(Tail(modules))
         ELSE <<Head(modules)>> \o ToLaunch(Tail(modules))

\* How many times m occurs in the sequence s.
Count(s, m) == Cardinality({i \in 1..Len(s) : s[i] = m})

\* annotate, lines 49-70: the launch loop.  Starting a goroutine synchronizes
\* with nothing, and the loop reads only the Annotation of modules whose own
\* goroutine is not started yet, so the loop is taken as one step.
AnnotateLaunch ==
    /\ mainpc = "launch"
    /\ LET started == ToLaunch(collectModulesInPostOrder)
       IN  /\ pc' = [m \in Mods |-> IF m \in Range(started) THEN "wait" ELSE pc[m]]
           /\ waitIdx' = [m \in Mods |-> IF m \in Range(started) THEN 1 ELSE waitIdx[m]]
           /\ launches' = [m \in Mods |-> launches[m] + Count(started, m)]
    /\ mainpc' = "waitRoot"
    /\ UNCHANGED <<treeVars, ann, ann0, chanVars, retErr, outcome, treq, tres, extVars, mt, libVars>>

\* annotate, lines 73-74: wait for the root's completion channel.
AnnotateWaitRoot ==
    /\ mainpc = "waitRoot"
    /\ dones[1] = "closed"
    /\ mainpc' = "closeErr"
    /\ UNCHANGED <<treeVars, ann, ann0, chanVars, retErr, taskVars, extVars, mt, libVars>>

\* annotate, line 75: close the error channel.
AnnotateCloseErr ==
    /\ mainpc = "closeErr"
    /\ errCh' = [errCh EXCEPT !.closed = TRUE]
    /\ mainpc' = "drain"
    /\ UNCHANGED <<treeVars, ann, ann0, dones, retErr, taskVars, extVars, mt, libVars>>

\* annotate, lines 78-82: range over the closed error channel; the first
\* error is returned, and without one the external-context step follows.
AnnotateDrain ==
    /\ mainpc = "drain"
    /\ IF errCh.buf # <<>>
       THEN /\ mainpc' = "returned"
            /\ retErr' = "err"
            /\ errCh' = [errCh EXCEPT !.buf = Tail(errCh.buf)]
       ELSE /\ mainpc' = "extBuild"
            /\ UNCHANGED <<retErr, errCh>>
    /\ UNCHANGED <<treeVars, ann, ann0, dones, taskVars, extVars, mt, libVars>>

(***************************************************************************)
(* annotate: the goroutine launched for module m (lines 56-69)             *)
(***************************************************************************)

\* Lines 58-60: receive from the completion channel of the next awaited
\* module; the receive returns once that channel is closed.
TaskWait(m) ==
    /\ pc[m] = "wait"
    /\ waitIdx[m] <= Len(Awaited(m))
    /\ dones[Awaited(m)[waitIdx[m]]] = "closed"
    /\ waitIdx' = [waitIdx EXCEPT ![m] = @ + 1]
    /\ UNCHANGED <<treeVars, ann, ann0, chanVars, mainVars, pc, outcome, launches,
                   treq, tres, extVars, mt, libVars>>

\* The wait loop of m's goroutine is over.
WaitOver(m) == pc[m] = "wait" /\ waitIdx[m] > Len(Awaited(m))

\* addOrUpdateSelfContainedContext, lines 110-114: a file of the module
\* cannot be read; the function returns an error before any request.
TaskReadFail(m) ==
    /\ WaitOver(m)
    /\ outcome' = [outcome EXCEPT ![m] = "err"]
    /\ pc' = [pc EXCEPT ![m] = "sendErr"]
    /\ UNCHANGED <<treeVars, ann, ann0, chanVars, mainVars, waitIdx, launches,
                   treq, tres, extVars, mt, libVars>>

\* Mutant of SubModulesPublicContexts: a child without Annotation is left
\* out of the request.
SubModulesPublicContexts_SkipNil(m) ==
    LET RECURSIVE keep(_)
        keep(subs) ==
            IF subs = <<>> THEN <<>>
            ELSE IF ann[Head(subs)].isNil THEN keep(Tail(subs))
                 ELSE <<[name |-> Name(Head(subs)),
                         content |-> ann[Head(subs)].pub]>> \o keep(Tail(subs))
    IN  keep(Modules(m))

\* Lines 121-131: the public context of every child, "" for a child
\* without Annotation.
SubModulesPublicContexts(m) ==
    [i \in 1..Len(Modules(m)) |->
        LET subMod == Modules(m)[i]
        IN  [name |-> Name(subMod),
             content |-> IF ~ann[subMod].isNil /\ ann[subMod].pub # ""
                         THEN ann[subMod].pub ELSE ""]]

\* addOrUpdateSelfContainedContext, lines 121-167: build the request from
\* the children's annotations and send it to the Summarizer.
TaskBuild(m) ==
    /\ WaitOver(m)
    /\ treq' = [treq EXCEPT ![m] = SubModulesPublicContexts(m)]
    /\ pc' = [pc EXCEPT ![m] = "call"]
    /\ UNCHANGED <<treeVars, ann, ann0, chanVars, mainVars, waitIdx, outcome, launches,
                   tres, extVars, mt, libVars>>

\* What llm.GetModuleContext may answer when it succeeds: both contexts, or
\* empty ones.
Contexts == {[int |-> "i", pub |-> "p"], [int |-> "", pub |-> ""]}

\* Lines 167-173: the Summarizer answers with an error.
SummarizerFail(m) ==
    /\ pc[m] = "call"
    /\ outcome' = [outcome EXCEPT ![m] = "err"]
    /\ pc' = [pc EXCEPT ![m] = "sendErr"]
    /\ UNCHANGED <<treeVars, ann, ann0, chanVars, mainVars, waitIdx, launches,
                   treq, tres, extVars, mt, libVars>>

\* Lines 167-173: the Summarizer answers with a context.
SummarizerReturn(m) ==
    /\ pc[m] = "call"
    /\ \E c \in Contexts : tres' = [tres EXCEPT ![m] = c]
    /\ pc' = [pc EXCEPT ![m] = "write"]
    /\ UNCHANGED <<treeVars, ann, ann0, chanVars, mainVars, waitIdx, outcome, launches,
                   treq, extVars, mt, libVars>>

\* Lines 175-194: the Annotation of m after the context c was stored.
StoreContext(a, c) ==
    LET a1 == IF a.isNil THEN EmptyAnn ELSE a
        a2 == IF c.int # "" THEN [a1 EXCEPT !.int = c.int] ELSE a1
    IN  IF c.pub # "" THEN [a2 EXCEPT !.pub = c.pub] ELSE a2

\* addOrUpdateSelfContainedContext, lines 175-195: write m's Annotation.
TaskWrite(m) ==
    /\ pc[m] = "write"
    /\ ann' = [ann EXCEPT ![m] = StoreContext(ann[m], tres[m])]
    /\ outcome' = [outcome EXCEPT ![m] = "ok"]
    /\ pc' = [pc EXCEPT ![m] = "close"]
    /\ UNCHANGED <<treeVars, ann0, chanVars, mainVars, waitIdx, launches, treq, tres,
                   extVars, mt, libVars>>

\* Line 63: send the error; a send on a closed channel panics.  The channel
\* has room for one error per module.
TaskSendErr(m) ==
    /\ pc[m] = "sendErr"
    /\ IF errCh.closed
       THEN Crash
       ELSE /\ Len(errCh.buf) < n
            /\ errCh' = [errCh EXCEPT !.buf = Append(@, m)]
            /\ pc' = [pc EXCEPT ![m] = "close"]
            /\ UNCHANGED <<treeVars, ann, ann0, dones, mainVars, waitIdx, outcome,
                           launches, treq, tres, extVars, mt, libVars>>

\* Lines 65 and 68: close m's completion channel; closing a closed channel
\* panics.
TaskClose(m) ==
    /\ pc[m] = "close"
    /\ IF dones[m] = "closed"
       THEN Crash
       ELSE /\ dones' = [dones EXCEPT ![m] = "closed"]
            /\ pc' = [pc EXCEPT ![m] = "done"]
            /\ UNCHANGED <<treeVars, ann, ann0, errCh, mainVars, waitIdx, outcome,
                           launches, treq, tres, extVars, mt, libVars>>

(***************************************************************************)
(* addOrUpdateExternalContext                                              *)
(***************************************************************************)

\* Mutant of allHaveExternal: the ExternalContext is not trimmed.
allHaveExternal_NoTrim ==
    \A i \in 1..Len(collectAllModules) :
        LET mod == collectAllModules[i]
        IN  ~(Name(mod) # "." /\ (ann[mod].isNil \/ ann[mod].ext = ""))

\* Lines 221-235: every module other than "." has an ExternalContext that
\* is not blank.
allHaveExternal ==
    \A i \in 1..Len(collectAllModules) :
        LET mod == collectAllModules[i]
        IN  ~(Name(mod) # "." /\ (ann[mod].isNil \/ TrimSpace(ann[mod].ext) = ""))

\* Lines 245-267: one entry per module, in the order of collectAllModules.
modulesForRequest ==
    [i \in 1..Len(collectAllModules) |->
        LET mod == collectAllModules[i]
        IN  [name |-> Name(mod),
             parentName |-> IF parent[mod] # 0 THEN Name(parent[mod]) ELSE "",
             internal |-> IF ~ann[mod].isNil THEN ann[mod].int ELSE "",
             public |-> IF ~ann[mod].isNil THEN ann[mod].pub ELSE ""]]

\* Lines 221-267: the early exit, or else the request is built and sent.
ExtBuild ==
    /\ mainpc = "extBuild"
    /\ n > 0
    /\ IF allHaveExternal
       THEN /\ mainpc' = "returned"
            /\ retErr' = "nil"
            /\ UNCHANGED <<req, extCalls>>
       ELSE /\ req' = modulesForRequest
            /\ extCalls' = extCalls + 1
            /\ mainpc' = "extCall"
            /\ UNCHANGED retErr
    /\ UNCHANGED <<treeVars, ann, ann0, chanVars, taskVars, resp, mt, libVars>>

\* Lines 286-289: the whole-tree request fails.
ExtFail ==
    /\ mainpc = "extCall"
    /\ mainpc' = "returned"
    /\ retErr' = "err"
    /\ UNCHANGED <<treeVars, ann, ann0, chanVars, taskVars, extVars, mt, libVars>>

\* Line 286: the whole-tree request is answered with one of the responses R.
ExtReturn(R) ==
    /\ mainpc = "extCall"
    /\ \E r \in R : resp' = r
    /\ mainpc' = "extWrite"
    /\ UNCHANGED <<treeVars, ann, ann0, chanVars, retErr, taskVars, extCalls, req, mt, libVars>>

\* moduleMap (lines 228-235): the module stored under a name; a later module
\* of collectAllModules replaces an earlier one of the same name.  0: none.
moduleMap(name) ==
    LET hits == {i \in 1..Len(collectAllModules) : Name(collectAllModules[i]) = name}
    IN  IF hits = {} THEN 0
        ELSE collectAllModules[CHOOSE i \in hits : \A j \in hits : j <= i]

\* Lines 294-303: store every returned ExternalContext in the module the
\* map has under the returned name; unknown names are skipped.
RECURSIVE persist(_, _)
persist(a, r) ==
    IF r = <<>> THEN a
    ELSE LET ext == Head(r)
             mod == moduleMap(ext.name)
         IN  IF mod # 0
             THEN persist([a EXCEPT ![mod] =
                              [(IF @.isNil THEN EmptyAnn ELSE @) EXCEPT !.ext = ext.ext]],
                          Tail(r))
             ELSE persist(a, Tail(r))

\* Lines 294-305: write the response back and return nil.
ExtWrite ==
    /\ mainpc = "extWrite"
    /\ ann' = persist(ann, resp)
    /\ mainpc' = "returned"
    /\ retErr' = "nil"
    /\ UNCHANGED <<treeVars, ann0, chanVars, taskVars, extVars, mt, libVars>>

\* The response that names every module of the request once.
FullResponse == [i \in 1..Len(req) |-> [name |-> req[i].name, ext |-> "e"]]

(***************************************************************************)
(* The scheduler as a whole                                                *)
(***************************************************************************)

\* The trees of k modules, numbered level by level and left to right: the
\* root has no parent, any other module has a parent of smaller number, and
\* the parents never decrease.  Every ordered tree has one such numbering.
TreesOf(k) == {p \in [1..k -> 0..k] :
                 \A i \in 1..k : IF i = 1 THEN p[i] = 0
                                  ELSE p[i] \in 1..(i - 1) /\ p[i - 1] <= p[i]}

\* Module.Modules of every module of the tree p.
ChildLists(p) ==
    [m \in DOMAIN p |-> SortedSeq({c \in DOMAIN p : p[c] = m})]

\* The matcher is idle while the scheduler runs.
MtIdle == [path |-> <<>>, stat |-> "file", excl |-> <<>>, incl |-> <<>>,
           incDone |-> FALSE, included |-> FALSE, excDone |-> FALSE, excluded |-> {},
           patDone |-> FALSE, matched |-> {}]

\* The selector and the builder are idle while the scheduler runs.
SelIdle == [pc |-> "off"]

BldIdle == [pc |-> "off"]

\* No command runs.
CmdIdle == [pc |-> "off"]

\* The annotations a stored tree may carry when annotate starts.
StoredAnnotations == {NoAnn, EmptyAnn, Annotation("e", "i", "p")}

\* The three-level tree root{A{G}, B}: root 1, A 2, B 3 and G 4.
ThreeLevelTree == <<0, 1, 1, 2>>

\* The trees annotate is run on: every tree of at most MaxModules modules,
\* and the three-level tree.
Trees == UNION {TreesOf(k) : k \in 0..MaxModules} \cup {ThreeLevelTree}

\* A tree of T with the annotations in A, and nothing started.
InitTree(T, A) ==
    /\ parent \in T
    /\ n = Len(parent)
    /\ children = ChildLists(parent)
    /\ ann \in [1..n -> A]
    /\ ann0 = ann
    /\ dones = [m \in 1..n |-> "open"]
    /\ errCh = [buf |-> <<>>, closed |-> FALSE]
    /\ retErr = "none"
    /\ pc = [m \in 1..n |-> "none"]
    /\ waitIdx = [m \in 1..n |-> 0]
    /\ outcome = [m \in 1..n |-> "none"]
    /\ launches = [m \in 1..n |-> 0]
    /\ treq = [m \in 1..n |-> <<>>]
    /\ tres = [m \in 1..n |-> [int |-> "", pub |-> ""]]
    /\ extCalls = 0
    /\ req = <<>>
    /\ resp = <<>>

Init ==
    /\ InitTree(Trees, StoredAnnotations)
    /\ mainpc = "start"
    /\ mt = MtIdle
    /\ sel = SelIdle
    /\ bld = BldIdle /\ cmd = CmdIdle

MainStep ==
    \/ AnnotateNil
    \/ AnnotateSetup
    \/ AnnotateLaunch
    \/ AnnotateWaitRoot
    \/ AnnotateCloseErr
    \/ AnnotateDrain
    \/ ExtBuild
    \/ ExtFail
    \/ ExtReturn({FullResponse})
    \/ ExtWrite

TaskStep(m) ==
    \/ TaskWait(m)
    \/ TaskReadFail(m)
    \/ TaskBuild(m)
    \/ SummarizerFail(m)
    \/ SummarizerReturn(m)
    \/ TaskWrite(m)
    \/ TaskSendErr(m)
    \/ TaskClose(m)

Next ==
    \/ AnnotateNil
    \/ AnnotateSetup
    \/ AnnotateLaunch
    \/ AnnotateWaitRoot
    \/ AnnotateCloseErr
    \/ AnnotateDrain
    \/ ExtBuild
    \/ ExtFail
    \/ ExtReturn({FullResponse})
    \/ ExtWrite
    \/ \E m \in Mods : TaskWait(m)
    \/ \E m \in Mods : TaskReadFail(m)
    \/ \E m \in Mods : TaskBuild(m)
    \/ \E m \in Mods : SummarizerFail(m)
    \/ \E m \in Mods : SummarizerReturn(m)
    \/ \E m \in Mods : TaskWrite(m)
    \/ \E m \in Mods : TaskSendErr(m)
    \/ \E m \in Mods : TaskClose(m)

Spec == Init /\ [][Next]_vars

\* Largest number of modules of any tree of Trees.
MaxTreeSize == MaxModules + 1

\* The Go scheduler runs every goroutine that can take a step, and every
\* Summarizer call is assumed to return.
FairSpec ==
    /\ Spec
    /\ WF_vars(MainStep)
    /\ \A m \in 1..MaxTreeSize : WF_vars(m \in Mods /\ TaskStep(m))

(***************************************************************************)
(* The pattern matcher (package matcher).  A path or a pattern is a        *)
(* sequence of characters.                                                 *)
(***************************************************************************)

\* strings.HasPrefix and strings.HasSuffix.
HasPrefix(s, p) == Len(p) <= Len(s) /\ SubSeq(s, 1, Len(p)) = p

HasSuffix(s, p) == Len(p) <= Len(s) /\ SubSeq(s, Len(s) - Len(p) + 1, Len(s)) = p

\* strings.TrimSuffix.
TrimSuffix(s, p) == IF HasSuffix(s, p) THEN SubSeq(s, 1, Len(s) - Len(p)) ELSE s

\* strings.Contains for a single character.
Contains(s, c) == \E i \in 1..Len(s) : s[i] = c

\* strings.Split(s, "/"): the segments between the slashes, empty ones
\* included; the empty string gives one empty segment.
RECURSIVE SplitFrom(_, _)
SplitFrom(s, cur) ==
    IF s = <<>> THEN <<cur>>
    ELSE IF Head(s) = "/" THEN <<cur>> \o SplitFrom(Tail(s), <<>>)
         ELSE SplitFrom(Tail(s), Append(cur, Head(s)))

Split(s) == SplitFrom(s, <<>>)

\* filepath.Base: the last element of the path, trailing slashes removed;
\* "." for the empty path and "/" for a path of slashes only.
RECURSIVE StripSlashes(_)
StripSlashes(s) ==
    IF s # <<>> /\ s[Len(s)] = "/" THEN StripSlashes(SubSeq(s, 1, Len(s) - 1)) ELSE s

Base(path) ==
    IF path = <<>> THEN <<".">>
    ELSE LET p == StripSlashes(path)
         IN  IF p = <<>> THEN <<"/">>
             ELSE LET segs == Split(p) IN segs[Len(segs)]

\* isDirMatcher (lines 185-187): the pattern ends with a slash.
isDirMatcher(matcher) == HasSuffix(matcher, <<"/">>)

\* matchSingleSegment (lines 229-265).
RECURSIVE matchSingleSegment(_, _)
matchSingleSegment(segment, pattern) ==
    IF segment # <<>> /\ pattern # <<>>
    THEN CASE Head(pattern) = "*" ->
                  IF Tail(pattern) = <<>> THEN TRUE
                  ELSE \E matchStart \in 0..Len(segment) :
                          matchSingleSegment(SubSeq(segment, matchStart + 1, Len(segment)),
                                             Tail(pattern))
           [] Head(pattern) = "?" -> matchSingleSegment(Tail(segment), Tail(pattern))
           [] OTHER -> /\ Head(segment) = Head(pattern)
                       /\ matchSingleSegment(Tail(segment), Tail(pattern))
    ELSE /\ \A i \in 1..Len(pattern) : pattern[i] = "*"
         /\ segment = <<>>

\* matchTokens (lines 191-225).
RECURSIVE matchTokens(_, _)
matchTokens(pathTokens, patternTokens) ==
    IF patternTokens = <<>> THEN pathTokens = <<>>
    ELSE LET head == Head(patternTokens)
         IN  IF head = <<"*", "*">>
             THEN \/ matchTokens(pathTokens, Tail(patternTokens))
                  \/ /\ pathTokens # <<>>
                     /\ matchTokens(Tail(pathTokens), patternTokens)
             ELSE /\ pathTokens # <<>>
                  /\ matchSingleSegment(Head(pathTokens), head)
                  /\ matchTokens(Tail(pathTokens), Tail(patternTokens))

\* The comparison of lines 155-162: the path is the directory of a
\* directory pattern, or lies inside it.
dirMatch(normalizedPath, matcher) ==
    LET trimmed == TrimSuffix(matcher, <<"/">>)
    IN  normalizedPath = trimmed \/ HasPrefix(normalizedPath, trimmed \o <<"/">>)

\* matchesPattern (lines 144-181); isDir is fileInfo.IsDir().
matchesPattern(isDir, filePath, matcher, matchAll) ==
    LET dirMatcher == isDirMatcher(matcher)
    IN  IF isDir /\ ~dirMatcher THEN FALSE
        ELSE IF dirMatcher /\ ~matchAll THEN dirMatch(filePath, matcher)
        ELSE IF ~Contains(matcher, "/") THEN matchSingleSegment(Base(filePath), matcher)
        ELSE matchTokens(Split(filePath),
                         Split(IF HasPrefix(matcher, <<"/">>) THEN Tail(matcher) ELSE matcher))

\* Mutant of dirPatternExcludes: a directory pattern is treated like any
\* other pattern, so that a later negation can reverse it.
dirPatternExcludes_Never(pattern) == FALSE

\* The effect of a matching non-negated directory pattern (lines 93-95): the
\* path is excluded at once, whatever follows in the list.
dirPatternExcludes(pattern) == isDirMatcher(pattern)

\* matchesExclusionPatterns (lines 78-101), over the rest of the list with
\* the value of `excluded` so far.
RECURSIVE exclusionLoop(_, _, _, _)
exclusionLoop(isDir, filePath, patterns, excluded) ==
    IF patterns = <<>> THEN excluded
    ELSE LET pattern == Head(patterns)
             rest == Tail(patterns)
         IN  IF pattern = <<>> THEN exclusionLoop(isDir, filePath, rest, excluded)
             ELSE IF Head(pattern) = "!"
             THEN IF matchesPattern(isDir, filePath, Tail(pattern), FALSE)
                  THEN exclusionLoop(isDir, filePath, rest, FALSE)
                  ELSE exclusionLoop(isDir, filePath, rest, excluded)
             ELSE IF matchesPattern(isDir, filePath, pattern, FALSE)
                  THEN IF dirPatternExcludes(pattern) THEN TRUE
                       ELSE exclusionLoop(isDir, filePath, rest, TRUE)
                  ELSE exclusionLoop(isDir, filePath, rest, excluded)

\* Mutant of matchesExclusionPatterns: the first pattern that matches
\* decides, the rest of the list is not consulted.
RECURSIVE matchesExclusionPatterns_FirstMatch(_, _, _)
matchesExclusionPatterns_FirstMatch(isDir, filePath, exclusionPatterns) ==
    IF exclusionPatterns = <<>> THEN FALSE
    ELSE LET pattern == Head(exclusionPatterns)
             rest == Tail(exclusionPatterns)
         IN  IF pattern = <<>>
             THEN matchesExclusionPatterns_FirstMatch(isDir, filePath, rest)
             ELSE IF Head(pattern) = "!"
             THEN IF matchesPattern(isDir, filePath, Tail(pattern), FALSE) THEN FALSE
                  ELSE matchesExclusionPatterns_FirstMatch(isDir, filePath, rest)
             ELSE IF matchesPattern(isDir, filePath, pattern, FALSE) THEN TRUE
                  ELSE matchesExclusionPatterns_FirstMatch(isDir, filePath, rest)

matchesExclusionPatterns(isDir, filePath, exclusionPatterns) ==
    exclusionLoop(isDir, filePath, exclusionPatterns, FALSE)

\* matchesInclusionPatterns (lines 103-125).
RECURSIVE matchesInclusionPatterns(_, _, _)
matchesInclusionPatterns(isDir, filePath, inclusionPatterns) ==
    IF inclusionPatterns = <<>> THEN FALSE
    ELSE LET pattern == Head(inclusionPatterns)
             rest == Tail(inclusionPatterns)
         IN  IF pattern = <<>> THEN matchesInclusionPatterns(isDir, filePath, rest)
             ELSE IF Head(pattern) = "!"
             THEN IF matchesPattern(isDir, filePath, Tail(pattern), TRUE) THEN FALSE
                  ELSE matchesInclusionPatterns(isDir, filePath, rest)
             ELSE IF matchesPattern(isDir, filePath, pattern, TRUE) THEN TRUE
                  ELSE matchesInclusionPatterns(isDir, filePath, rest)

\* isIncluded (lines 69-75).
isIncluded(isDir, filePath, exclusionPatterns, inclusionPatterns) ==
    IF matchesExclusionPatterns(isDir, filePath, exclusionPatterns) THEN FALSE
    ELSE matchesInclusionPatterns(isDir, filePath, inclusionPatterns)

\* IsIncluded (lines 35-51); stat is what fs.Stat finds at the path: "file",
\* "dir", "notexist" or "error".  A path that does not exist counts as a
\* directory when it ends with a slash.
IsIncluded(stat, filePath, exclusionPatterns, inclusionPatterns) ==
    CASE stat = "error" -> FALSE
      [] stat = "notexist" ->
            isIncluded(HasSuffix(filePath, <<"/">>), filePath,
                       exclusionPatterns, inclusionPatterns)
      [] OTHER -> isIncluded(stat = "dir", filePath, exclusionPatterns, inclusionPatterns)

\* Mutant of IsExcluded: no path is excluded.
IsExcluded_Never(stat, filePath, exclusionPatterns) == FALSE

\* IsExcluded (lines 55-62): a path that cannot be stat'ed is not excluded.
IsExcluded(stat, filePath, exclusionPatterns) ==
    IF stat \in {"error", "notexist"} THEN FALSE
    ELSE matchesExclusionPatterns(stat = "dir", filePath, exclusionPatterns)

(***************************************************************************)
(* addOrUpdateExternalContext on its own                                   *)
(***************************************************************************)

\* Lines 213-215: no module, nothing to do.
ExtNil ==
    /\ mainpc = "extBuild"
    /\ n = 0
    /\ mainpc' = "returned"
    /\ retErr' = "nil"
    /\ UNCHANGED <<treeVars, ann, ann0, chanVars, taskVars, extVars, mt, libVars>>

\* Largest number of entries of a response that is not the full one.
MaxResp == 2

\* The external context returned in the i-th entry of a response.
ExtTexts == <<"x1", "x2", "x3", "x4">>

\* The sequences of at most k members of S.
SeqsUpTo(S, k) == UNION {[1..j -> S] : j \in 0..k}

\* What llm.GetModuleExternalContexts may answer: the full response, or a few
\* entries in any order, for modules of the tree (possibly twice the same)
\* or for a name that no module has.
ExtResponses ==
    {FullResponse} \cup
    {[i \in 1..Len(names) |-> [name |-> names[i], ext |-> ExtTexts[i]]] :
        names \in SeqsUpTo({Name(m) : m \in Mods} \cup {"ghost"}, MaxResp)}

\* The annotations of the tree addOrUpdateExternalContext is called on.
ExtAnnotations ==
    {NoAnn, Annotation("", "i", "p"), Annotation(" ", "i", "p"), Annotation("e", "i", "p")}

InitExt ==
    /\ InitTree(Trees, ExtAnnotations)
    /\ mainpc = "extBuild"
    /\ mt = MtIdle
    /\ sel = SelIdle
    /\ bld = BldIdle /\ cmd = CmdIdle

NextExt ==
    \/ ExtNil
    \/ ExtBuild
    \/ ExtFail
    \/ ExtReturn(ExtResponses)
    \/ ExtWrite

SpecExt == InitExt /\ [][NextExt]_vars

(***************************************************************************)
(* The matcher on its own                                                  *)
(***************************************************************************)

\* Largest number of patterns of an exclusion list.
MaxExcl == 2

\* The paths the matcher is asked about: "b", "a/b", "a/b/c", "ab/c", "c/a/b".
Paths ==
    {<<"b">>, <<"a", "/", "b">>, <<"a", "/", "b", "/", "c">>, <<"a", "b", "/", "c">>,
     <<"c", "/", "a", "/", "b">>}

\* The exclusion patterns: "a/", "!a/", "a/b/", "/a/", "a/*", "!a/b", "b",
\* "!b", "!a/b/c", "!*" and the empty pattern.
ExclPatterns ==
    {<<"a", "/">>, <<"!", "a", "/">>, <<"a", "/", "b", "/">>, <<"/", "a", "/">>,
     <<"a", "/", "*">>, <<"!", "a", "/", "b">>, <<"b">>, <<"!", "b">>,
     <<"!", "a", "/", "b", "/", "c">>, <<"!", "*">>, <<>>}

\* The inclusion lists: none, ["*"], ["a/b"], ["*", "!b"], ["!b", "*"],
\* ["a/b/c"].
InclLists ==
    {<<>>, <<<<"*">>>>, <<<<"a", "/", "b">>>>, <<<<"*">>, <<"!", "b">>>>,
     <<<<"!", "b">>, <<"*">>>>, <<<<"a", "/", "b", "/", "c">>>>}

\* The ancestor directories of a path: what precedes one of its slashes.
Ancestors(path) == {SubSeq(path, 1, i - 1) : i \in {j \in 2..Len(path) : path[j] = "/"}}

\* The paths and patterns of Test_isIncluded: "dir/foo.txt", "dir/bar.txt"
\* and "foo.txt"; "dir/*", "!dir/foo.txt", "dir/", "!dir/bar.txt", "*.txt";
\* and the inclusion lists ["dir/foo.txt"], ["dir/bar.txt"], ["*"] and [].
DirFoo == <<"d", "i", "r", "/", "f", "o", "o", ".", "t", "x", "t">>

DirBar == <<"d", "i", "r", "/", "b", "a", "r", ".", "t", "x", "t">>

TestPaths == {DirFoo, DirBar, <<"f", "o", "o", ".", "t", "x", "t">>}

TestExclPatterns ==
    {<<"d", "i", "r", "/", "*">>, <<"!">> \o DirFoo, <<"d", "i", "r", "/">>,
     <<"!">> \o DirBar, <<"*", ".", "t", "x", "t">>}

TestInclLists == {<<DirFoo>>, <<DirBar>>, <<<<"*">>>>, <<>>}

\* What the matcher is asked: a path, what fs.Stat finds there, and the two
\* pattern lists.
MatcherInputs ==
    [path : Paths, stat : {"file", "dir", "notexist", "error"},
     excl : SeqsUpTo(ExclPatterns, MaxExcl), incl : InclLists]
    \cup
    [path : TestPaths, stat : {"file", "dir", "notexist", "error"},
     excl : SeqsUpTo(TestExclPatterns, MaxExcl), incl : TestInclLists]

InitMatcher ==
    /\ InitTree({<<>>}, {NoAnn})
    /\ mainpc = "idle"
    /\ \E in \in MatcherInputs :
          mt = [path |-> in.path, stat |-> in.stat, excl |-> in.excl, incl |-> in.incl,
                incDone |-> FALSE, included |-> FALSE,
                excDone |-> FALSE, excluded |-> {},
                patDone |-> FALSE, matched |-> {}]
    /\ sel = SelIdle
    /\ bld = BldIdle /\ cmd = CmdIdle

\* A caller asks IsIncluded about the path.
CallIsIncluded ==
    /\ mainpc = "idle"
    /\ ~mt.incDone
    /\ mt' = [mt EXCEPT !.incDone = TRUE,
                        !.included = IsIncluded(mt.stat, mt.path, mt.excl, mt.incl)]
    /\ UNCHANGED <<schedVars, libVars>>

\* A caller asks IsExcluded about the path and about each of its ancestor
\* directories, which exist and are directories.
CallIsExcluded ==
    /\ mainpc = "idle"
    /\ ~mt.excDone
    /\ mt' = [mt EXCEPT
                !.excDone = TRUE,
                !.excluded =
                    {[p |-> d, r |-> IsExcluded("dir", d, mt.excl)] : d \in Ancestors(mt.path)}
                    \cup {[p |-> mt.path, r |-> IsExcluded(mt.stat, mt.path, mt.excl)]}]
    /\ UNCHANGED <<schedVars, libVars>>

\* The pattern without the "!" that negates it.
Negated(pattern) == pattern # <<>> /\ Head(pattern) = "!"

ActualPattern(pattern) == IF Negated(pattern) THEN Tail(pattern) ELSE pattern

\* matchesPattern is called, as the two loops call it, for every pattern of
\* the two lists on a path that exists: with matchAll false for an exclusion
\* pattern and true for an inclusion pattern.
CallMatchesPattern ==
    /\ mainpc = "idle"
    /\ ~mt.patDone
    /\ mt.stat \in {"file", "dir"}
    /\ mt' = [mt EXCEPT
                !.patDone = TRUE,
                !.matched =
                    {[pat |-> ActualPattern(mt.excl[i]), all |-> FALSE,
                      r |-> matchesPattern(mt.stat = "dir", mt.path,
                                           ActualPattern(mt.excl[i]), FALSE)] :
                        i \in 1..Len(mt.excl)}
                    \cup
                    {[pat |-> ActualPattern(mt.incl[i]), all |-> TRUE,
                      r |-> matchesPattern(mt.stat = "dir", mt.path,
                                           ActualPattern(mt.incl[i]), TRUE)] :
                        i \in 1..Len(mt.incl)}]
    /\ UNCHANGED <<schedVars, libVars>>

NextMatcher ==
    \/ CallIsIncluded
    \/ CallIsExcluded
    \/ CallMatchesPattern

SpecMatcher == InitMatcher /\ [][NextMatcher]_vars

(***************************************************************************)
(* The file selector (package selector)                                    *)
(***************************************************************************)

\* The project tree the selector walks.  Every path the file system may
\* hold, in the order fs.WalkDir visits them (ReadDir sorts by name): ".",
\* ".gitignore", "other", "other/x.txt", "work", "work/.gitignore",
\* "work/a.txt", "work/sub", "work/sub/c.txt", "work/sub/x.txt",
\* "work/x.txt", "works", "works/x.txt", "x.txt".
Dot == <<".">>

Work == <<"w", "o", "r", "k">>

WorkSub == <<"w", "o", "r", "k", "/", "s", "u", "b">>

Other == <<"o", "t", "h", "e", "r">>

Works == <<"w", "o", "r", "k", "s">>

WalkOrder ==
    <<<<".">>,
      <<".", "g", "i", "t", "i", "g", "n", "o", "r", "e">>,
      <<"o", "t", "h", "e", "r">>,
      <<"o", "t", "h", "e", "r", "/", "x", ".", "t", "x", "t">>,
      <<"w", "o", "r", "k">>,
      <<"w", "o", "r", "k", "/", ".", "g", "i", "t", "i", "g", "n", "o", "r", "e">>,
      <<"w", "o", "r", "k", "/", "a", ".", "t", "x", "t">>,
      <<"w", "o", "r", "k", "/", "s", "u", "b">>,
      <<"w", "o", "r", "k", "/", "s", "u", "b", "/", "c", ".", "t", "x", "t">>,
      <<"w", "o", "r", "k", "/", "s", "u", "b", "/", "x", ".", "t", "x", "t">>,
      <<"w", "o", "r", "k", "/", "x", ".", "t", "x", "t">>,
      <<"w", "o", "r", "k", "s">>,
      <<"w", "o", "r", "k", "s", "/", "x", ".", "t", "x", "t">>,
      <<"x", ".", "t", "x", "t">>>>

DirPaths == {Dot, Other, Work, WorkSub, Works}

\* The files of TestSelect_TargetDirIsolation: work/a.txt, work/sub/c.txt
\* and other/x.txt.
IsolationFiles == {<<"w", "o", "r", "k", "/", "a", ".", "t", "x", "t">>, <<"w", "o", "r", "k", "/", "s", "u", "b", "/", "c", ".", "t", "x", "t">>, <<"o", "t", "h", "e", "r", "/", "x", ".", "t", "x", "t">>}

\* Every file of the tree, the ignore files aside.
AllFiles ==
    IsolationFiles \cup {<<"w", "o", "r", "k", "/", "s", "u", "b", "/", "x", ".", "t", "x", "t">>, <<"w", "o", "r", "k", "/", "x", ".", "t", "x", "t">>, <<"w", "o", "r", "k", "s", "/", "x", ".", "t", "x", "t">>, <<"x", ".", "t", "x", "t">>}

\* The name of the per-directory ignore file.
Gitignore == <<".", "g", "i", "t", "i", "g", "n", "o", "r", "e">>

\* A directory without ignore file.
NoFile == <<"nofile">>

\* path.Dir: the path without its last element, "." when it has one element.
Dir(p) ==
    LET slashes == {i \in 1..Len(p) : p[i] = "/"}
    IN  IF slashes = {} THEN Dot
        ELSE SubSeq(p, 1, (CHOOSE i \in slashes : \A j \in slashes : j <= i) - 1)

\* path.Join of a directory and a name, cleaned: "." joined with a name is
\* the name.
Join(dir, name) == IF dir = Dot THEN name ELSE dir \o <<"/">> \o name

\* path.Clean of a path that has no "..", no doubled slash and no trailing
\* slash: the empty path becomes ".".
Clean(p) == IF p = <<>> THEN Dot ELSE p

\* The elements of a clean relative path, none for ".".
Elements(p) == IF p = Dot THEN <<>> ELSE Split(p)

\* The elements joined by slashes, "." for none.
RECURSIVE JoinAll(_)
JoinAll(segs) ==
    IF segs = <<>> THEN Dot
    ELSE IF Len(segs) = 1 THEN Head(segs)
    ELSE Head(segs) \o <<"/">> \o JoinAll(Tail(segs))

\* filepath.Rel(basepath, targpath) for clean relative paths: the common
\* leading elements are dropped, and ".." climbs out of what is left of
\* basepath.
RECURSIVE RelOf(_, _)
RelOf(base, targ) ==
    IF base # <<>> /\ targ # <<>> /\ Head(base) = Head(targ)
    THEN RelOf(Tail(base), Tail(targ))
    ELSE [i \in 1..Len(base) |-> <<".", ".">>] \o targ

Rel(basepath, targpath) == JoinAll(RelOf(Elements(basepath), Elements(targpath)))

\* The path exists in the file system: a file of the tree, an ignore file,
\* or a directory that holds one of them.
FileExists(p) ==
    \/ p \in sel.files
    \/ \E d \in DirPaths : p = Join(d, Gitignore) /\ sel.ignore[d] # NoFile

Exists(p) ==
    \/ p = Dot
    \/ FileExists(p)
    \/ /\ p \in DirPaths
       /\ \E i \in 1..Len(WalkOrder) :
             FileExists(WalkOrder[i]) /\ HasPrefix(WalkOrder[i], p \o <<"/">>)

\* fs.ReadDir: the entries of a directory, sorted by name.
RECURSIVE Filter(_, _)
Filter(s, dir) ==
    IF s = <<>> THEN <<>>
    ELSE IF Head(s) # Dot /\ Dir(Head(s)) = dir /\ Exists(Head(s))
         THEN <<Head(s)>> \o Filter(Tail(s), dir)
         ELSE Filter(Tail(s), dir)

ReadDir(dir) == Filter(WalkOrder, dir)

\* parseGitignore (lines 108-131): the lines of the ignore file, without
\* the empty lines and the comments.
RECURSIVE parseGitignore(_)
parseGitignore(data) ==
    IF data = <<>> THEN <<>>
    ELSE IF Head(data) = <<>> \/ HasPrefix(Head(data), <<"#">>)
         THEN parseGitignore(Tail(data))
         ELSE <<Head(data)>> \o parseGitignore(Tail(data))

\* computeEffectiveExclusions (lines 98-105): the base exclusions, and after
\* them the patterns of the directory's ignore file if it has one.
computeEffectiveExclusions(dir, baseExclusions) ==
    IF sel.ignore[dir] # NoFile
    THEN baseExclusions \o parseGitignore(sel.ignore[dir])
    ELSE baseExclusions

\* isWithinStart (lines 49-56), of the Select that takes an
\* ExecutionContext.
isWithinStart(p) ==
    IF sel.start = Dot THEN TRUE
    ELSE p = sel.start \/ HasPrefix(p \o <<"/">>, sel.start \o <<"/">>)

\* isRelated (lines 182-193), of the Select that takes a base directory and
\* a target: one path is an ancestor of the other.
isRelated(curr, target) ==
    IF curr = Dot \/ target = Dot THEN TRUE
    ELSE \/ HasPrefix(target \o <<"/">>, curr \o <<"/">>)
         \/ HasPrefix(curr \o <<"/">>, target \o <<"/">>)

\* Mutant of outsideStart: nothing is outside.
outsideStart_Never(rel) == FALSE

\* Lines 209-212: the file, at the path rel relative to startDir, is not
\* under startDir.
outsideStart(rel) == rel = <<".", ".">> \/ HasPrefix(rel, <<".", ".", "/">>)

\* The next path of the walk.
currPath == Head(sel.queue)

\* The callback returns before it evaluates the path: lines 65-67 (SkipDir
\* for what is not within the start directory), lines 203-213 (SkipDir for
\* an unrelated directory, nil for a file that is not under startDir).
Outside(p) ==
    IF sel.version = "ec" THEN ~isWithinStart(p)
    ELSE IF p \in DirPaths THEN ~isRelated(p, sel.start)
    ELSE outsideStart(Rel(sel.start, p))

\* Lines 69-71 and 216-221: the exclusions the path is evaluated with.
parentExcl(p) ==
    LET parentDir == Dir(p)
    IN  IF sel.version = "ec"
        THEN (IF sel.eff[parentDir].ok THEN sel.eff[parentDir].list ELSE <<>>) \o sel.excl
        ELSE IF sel.eff[parentDir].ok THEN sel.eff[parentDir].list ELSE sel.excl

\* No ExecutionContext, no target.
Nil == <<"nil">>

\* Lines 31-33: without ExecutionContext Select returns fs.ErrInvalid.
SelectInvalid ==
    /\ sel.pc = "idle"
    /\ sel.version = "ec"
    /\ sel.target = Nil
    /\ sel' = [sel EXCEPT !.pc = "done", !.err = "ErrInvalid"]
    /\ UNCHANGED <<schedVars, mt, bld, cmd>>

\* Lines 159-172: the start directory is the base directory, or the target
\* if it is a directory, or the directory of the target if it is a file.
startDir(commandBaseDir, target) ==
    IF target # Nil /\ Exists(Clean(target))
    THEN IF Clean(target) \in DirPaths THEN Clean(target) ELSE Dir(Clean(target))
    ELSE Clean(commandBaseDir)

\* Lines 38-41 and 159-172: the directory that seeds the selection, then
\* fs.WalkDir is started at the project root (lines 58 and 196).
SelectStart ==
    /\ sel.pc = "idle"
    /\ sel.target # Nil \/ sel.version = "target"
    /\ sel' = [sel EXCEPT
                 !.pc = "walk",
                 !.start = IF sel.version = "ec" THEN Rel(Dot, sel.target)
                           ELSE startDir(sel.base, sel.target),
                 !.queue = <<Dot>>]
    /\ UNCHANGED <<schedVars, mt, bld, cmd>>

\* The entries fs.WalkDir leaves out when the callback returns SkipDir for
\* the file p: the rest of the directory that holds p.
RECURSIVE SkipRest(_, _)
SkipRest(queue, dir) ==
    IF queue # <<>> /\ Dir(Head(queue)) = dir THEN SkipRest(Tail(queue), dir) ELSE queue

\* Lines 65-67 and 203-213: the path is outside the start directory.
WalkOutside ==
    /\ sel.pc = "walk"
    /\ sel.queue # <<>>
    /\ Outside(currPath)
    /\ sel' = [sel EXCEPT
                 !.queue = IF currPath \in DirPaths \/ sel.version = "target"
                           THEN Tail(sel.queue)
                           ELSE SkipRest(Tail(sel.queue), Dir(currPath))]
    /\ UNCHANGED <<schedVars, mt, bld, cmd>>

\* fs.WalkDir: the entries of the directory are walked next, unless the
\* callback returned SkipDir for it.
descend(dir, skipDir) == IF skipDir THEN <<>> ELSE ReadDir(dir)

\* Lines 76-78 and 225-227: the directory is excluded by the exclusions of
\* its parent; fs.WalkDir skips it.
WalkDirExcluded ==
    /\ sel.pc = "walk"
    /\ sel.queue # <<>>
    /\ currPath \in DirPaths
    /\ ~Outside(currPath)
    /\ IsExcluded("dir", currPath, parentExcl(currPath))
    /\ sel' = [sel EXCEPT
                 !.skipped = @ \cup {currPath},
                 !.reached = @ \cup {[p |-> currPath, excl |-> parentExcl(currPath)]},
                 !.queue = descend(currPath, TRUE) \o Tail(sel.queue)]
    /\ UNCHANGED <<schedVars, mt, bld, cmd>>

\* Lines 79-81 and 229: the directory is kept; its exclusions are those
\* of its parent and the patterns of its own ignore file.
WalkDirEnter ==
    /\ sel.pc = "walk"
    /\ sel.queue # <<>>
    /\ currPath \in DirPaths
    /\ ~Outside(currPath)
    /\ ~IsExcluded("dir", currPath, parentExcl(currPath))
    /\ sel' = [sel EXCEPT
                 !.eff[currPath] =
                     [ok |-> TRUE,
                      list |-> computeEffectiveExclusions(currPath, parentExcl(currPath))],
                 !.read = IF sel.ignore[currPath] # NoFile THEN @ \cup {currPath} ELSE @,
                 !.reached = @ \cup {[p |-> currPath, excl |-> parentExcl(currPath)]},
                 !.queue = descend(currPath, FALSE) \o Tail(sel.queue)]
    /\ UNCHANGED <<schedVars, mt, bld, cmd>>

\* Lines 84-88 and 230-234: a file is returned if IsIncluded says so.
WalkFile ==
    /\ sel.pc = "walk"
    /\ sel.queue # <<>>
    /\ currPath \notin DirPaths
    /\ ~Outside(currPath)
    /\ sel' = [sel EXCEPT
                 !.results = IF IsIncluded("file", currPath, parentExcl(currPath), sel.incl)
                             THEN Append(@, currPath) ELSE @,
                 !.evaluated = @ \cup {[p |-> currPath, excl |-> parentExcl(currPath)]},
                 !.queue = Tail(sel.queue)]
    /\ UNCHANGED <<schedVars, mt, bld, cmd>>

\* Lines 92 and 237: the walk is over, Select returns the results.
SelectReturn ==
    /\ sel.pc = "walk"
    /\ sel.queue = <<>>
    /\ sel' = [sel EXCEPT !.pc = "done", !.err = "nil"]
    /\ UNCHANGED <<schedVars, mt, bld, cmd>>

\* Largest number of lines of an ignore file.
MaxIgnore == 1

\* The lines an ignore file may hold: "/x.txt", "sub/x.txt", "work/sub/"
\* and the comment "#c".
IgnoreLines == {<<"/", "x", ".", "t", "x", "t">>, <<"s", "u", "b", "/", "x", ".", "t", "x", "t">>, <<"w", "o", "r", "k", "/", "s", "u", "b", "/">>, <<"#", "c">>}

\* The ignore files of the tree: "." and "work" may have one.
IgnoreFiles ==
    {f \in [DirPaths -> {NoFile} \cup SeqsUpTo(IgnoreLines, MaxIgnore)] :
        \A d \in DirPaths \ {Dot, Work} : f[d] = NoFile}

\* The exclusion lists of the caller: none, ["work/"] and ["work/sub/"]; the
\* inclusion lists: ["*"] and ["c.txt"].
CallerExclusions == {<<>>, <<Work \o <<"/">>>>, <<WorkSub \o <<"/">>>>}

CallerInclusions == {<<<<"*">>>>, <<<<"c", ".", "t", "x", "t">>>>}

\* What Select is called with.  With an ExecutionContext: its TargetDir
\* relative to the project root, or no context at all.  With a base
\* directory and a target: ("", none), ("work", none),
\* ("work", "work/sub/c.txt"), (".", "other"), ("work/sub", "no").
SelectCalls ==
    [version : {"ec"}, base : {Dot}, target : {Nil, Dot, Work, WorkSub, Other}]
    \cup
    {[version |-> "target", base |-> c[1], target |-> c[2]] :
        c \in {<<<<>>, Nil>>, <<Work, Nil>>, <<Work, <<"w", "o", "r", "k", "/", "s", "u", "b", "/", "c", ".", "t", "x", "t">>>>,
               <<Dot, Other>>, <<WorkSub, <<"n", "o">>>>}}

InitSelect ==
    /\ InitTree({<<>>}, {NoAnn})
    /\ mainpc = "idle"
    /\ mt = MtIdle
    /\ bld = BldIdle /\ cmd = CmdIdle
    /\ \E c \in SelectCalls, files \in {IsolationFiles, AllFiles}, ignore \in IgnoreFiles,
          excl \in CallerExclusions, incl \in CallerInclusions :
          sel = [pc |-> "idle", version |-> c.version, base |-> c.base,
                 target |-> c.target, excl |-> excl, incl |-> incl,
                 files |-> files, ignore |-> ignore,
                 start |-> Dot, queue |-> <<>>,
                 eff |-> [d \in DirPaths |-> [ok |-> FALSE, list |-> <<>>]],
                 results |-> <<>>, evaluated |-> {}, reached |-> {}, read |-> {},
                 skipped |-> {},
                 err |-> "none"]

NextSelect ==
    \/ SelectInvalid
    \/ SelectStart
    \/ WalkOutside
    \/ WalkDirExcluded
    \/ WalkDirEnter
    \/ WalkFile
    \/ SelectReturn

SpecSelect == InitSelect /\ [][NextSelect]_vars

(***************************************************************************)
(* The module tree builder (workspace/project)                             *)
(***************************************************************************)

\* A FileRef: its path from the workspace root and its token count.
\* LastModified and MD5 play no part in the collapse passes.
FileRef(name, tokens) == [Name |-> name, TokenCount |-> tokens]

\* &Module{Name: ..., Modules: []*Module{}, Files: []*FileRef{}}: the
\* fields the literal leaves out are zero.  ptr is the address of the
\* object, told by the allocation that made it and the name it was made
\* with; Parent holds the address of the module the pointer designates,
\* Nil for a nil pointer; Directories, MD5 and Annotation are not read by
\* the collapse passes.
EmptyModule(name) ==
    [ptr |-> <<"literal", name>>, Name |-> name, Parent |-> Nil, Modules |-> <<>>,
     Files |-> <<>>, localTokenCount |-> 0, TokenCount |-> 0]

\* The sum of the TokenCount fields of a list of modules or of files.
RECURSIVE sumTokenCount(_)
sumTokenCount(list) ==
    IF list = <<>> THEN 0 ELSE Head(list).TokenCount + sumTokenCount(Tail(list))

\* computeTokenCountFromChildren: the children's TokenCount plus the
\* files' TokenCount.
computeTokenCountFromChildren_FilesOnly(modules, files) == sumTokenCount(files)

computeTokenCountFromChildren(modules, files) ==
    sumTokenCount(modules) + sumTokenCount(files)

\* newModule: the fields of the object it allocates; localTokenCount
\* counts the files only, TokenCount the children too.
newModule(name, par, modules, files) ==
    [Name |-> name, Parent |-> par, Modules |-> modules, Files |-> files,
     localTokenCount |-> computeTokenCountFromChildren(<<>>, files),
     TokenCount |-> computeTokenCountFromChildren(modules, files)]

\* navigateOrCreateModule walks down from m along parts, creating the
\* submodules that are missing (appended to Modules), and gives the module
\* it reaches; the caller appends the file f to that module's Files, which
\* is applied here at the module reached.
RECURSIVE navigateOrCreateModule(_, _, _)
navigateOrCreateModule(m, parts, f) ==
    IF parts = <<>> THEN [m EXCEPT !.Files = Append(@, f)]
    ELSE LET chunk == Head(parts)
             childFullName == IF m.Name = Dot THEN chunk ELSE Join(m.Name, chunk)
             found == {i \in 1..Len(m.Modules) : m.Modules[i].Name = childFullName}
         IN  IF found # {}
             THEN LET i == CHOOSE k \in found : \A j \in found : k <= j
                  IN  [m EXCEPT !.Modules[i] =
                                    navigateOrCreateModule(@, Tail(parts), f)]
             ELSE [m EXCEPT !.Modules =
                      Append(@, navigateOrCreateModule(EmptyModule(childFullName),
                                                       Tail(parts), f))]

\* findOrCreateParentModule: the module of the path without its last
\* component, the root for a file of the root directory.
findOrCreateParentModule(root, f) ==
    LET parts == Split(f.Name)
        parentParts == SubSeq(parts, 1, Len(parts) - 1)
    IN  IF Len(parts) < 1 \/ parentParts = <<>>
        THEN [root EXCEPT !.Files = Append(@, f)]
        ELSE navigateOrCreateModule(root, parentParts, f)

\* The loop of collapseModules: while m has exactly one submodule and no
\* file, m takes the submodule's Name, Modules and Files (and keeps its own
\* other fields).
RECURSIVE mergeSingleChild(_)
mergeSingleChild(m) ==
    IF Len(m.Modules) = 1 /\ Len(m.Files) = 0
    THEN LET sub == m.Modules[1]
         IN  mergeSingleChild([m EXCEPT !.Name = sub.Name,
                                        !.Modules = sub.Modules,
                                        !.Files = sub.Files])
    ELSE m

\* collapseModules without the recursion below the first level.
collapseModules_Shallow(m) ==
    IF m.Name = Dot
    THEN [m EXCEPT !.Modules = [i \in 1..Len(m.Modules) |-> mergeSingleChild(m.Modules[i])]]
    ELSE mergeSingleChild(m)

\* collapseModules: the children first, then m itself unless it is the
\* root.
RECURSIVE collapseModules(_)
collapseModules(m) ==
    LET c == [m EXCEPT !.Modules =
                 [i \in 1..Len(m.Modules) |-> collapseModules(m.Modules[i])]]
    IN  IF c.Name = Dot THEN c ELSE mergeSingleChild(c)

\* The package variables minTokenCountPerModule and maxTokenCountPerModule
\* start with these values; the builder reads the variables, which a test
\* may have set (bld.minTokenCountPerModule, bld.maxTokenCountPerModule).
minTokenCountPerModule == 10000

maxTokenCountPerModule == 100000

\* TestBuildTree sets maxTokenCountPerModule to this.
TestMaxTokenCount == 5

\* The list without its i-th element.
RemoveAt(list, i) == SubSeq(list, 1, i - 1) \o SubSeq(list, i + 1, Len(list))

\* The loop of collapseByTokens that moves on after a merge instead of
\* looking at the same index again.
RECURSIVE mergeSmallChildren_Advance(_, _)
mergeSmallChildren_Advance(m, i) ==
    IF i > Len(m.Modules) THEN m
    ELSE LET child == m.Modules[i]
         IN  IF /\ child.localTokenCount < bld.minTokenCountPerModule
                /\ m.localTokenCount + child.localTokenCount <= bld.maxTokenCountPerModule
             THEN mergeSmallChildren_Advance(
                      [m EXCEPT !.Files = @ \o child.Files,
                                !.Modules = RemoveAt(@, i) \o child.Modules,
                                !.localTokenCount = @ + child.localTokenCount],
                      i + 1)
             ELSE mergeSmallChildren_Advance(m, i + 1)

\* The loop of collapseByTokens from index i (1-based): a child whose
\* localTokenCount is under the minimum is merged when m's localTokenCount
\* stays within the maximum; m adopts its files, its submodules go to the
\* end of m.Modules, and the same index is looked at again.
RECURSIVE mergeSmallChildren(_, _)
mergeSmallChildren(m, i) ==
    IF i > Len(m.Modules) THEN m
    ELSE LET child == m.Modules[i]
         IN  IF /\ child.localTokenCount < bld.minTokenCountPerModule
                /\ m.localTokenCount + child.localTokenCount <= bld.maxTokenCountPerModule
             THEN mergeSmallChildren(
                      [m EXCEPT !.Files = @ \o child.Files,
                                !.Modules = RemoveAt(@, i) \o child.Modules,
                                !.localTokenCount = @ + child.localTokenCount],
                      i)
             ELSE mergeSmallChildren(m, i + 1)

\* collapseByTokens: the children first, then m's own children unless m is
\* the root.
RECURSIVE collapseByTokens(_)
collapseByTokens(m) ==
    LET c == [m EXCEPT !.Modules =
                 [i \in 1..Len(m.Modules) |-> collapseByTokens(m.Modules[i])]]
    IN  IF c.Name = Dot THEN c ELSE mergeSmallChildren(c, 1)

\* rebuildModule: every node made anew by newModule, children first.  The
\* children are given old, the module being converted, as their parent
\* (line 472); par is a pointer, Nil or an address.  The object newModule
\* allocates is a new one: its address is told by the object it converts.
RECURSIVE rebuildModule(_, _)
rebuildModule(old, par) ==
    [ptr |-> <<"rebuilt", old.ptr>>] @@
    newModule(old.Name, par,
              [i \in 1..Len(old.Modules) |-> rebuildModule(old.Modules[i], old.ptr)],
              old.Files)

\* filepath.ToSlash: the separator is the slash, the path is returned as
\* it is.
ToSlash(p) == p

\* FindModule that keeps the first module found.
FindModule_Shallowest(root, relPath) ==
    LET path == ToSlash(relPath)
        RECURSIVE dfs(_, _, _)
        dfs(m, i, best) ==
            IF i > Len(m.Modules) THEN best
            ELSE LET c == m.Modules[i]
                     hit == \/ path = c.Name
                            \/ c.Name # Dot /\ HasPrefix(path, c.Name \o <<"/">>)
                     b1 == IF hit /\ best = root THEN c ELSE best
                 IN  dfs(m, i + 1, dfs(c, 1, b1))
    IN  dfs(root, 1, root)

\* FindModule: best starts as the root; the modules are visited depth
\* first, children in order, and every module whose Name is relPath or a
\* directory prefix of it replaces best.
FindModule(root, relPath) ==
    LET path == ToSlash(relPath)
        RECURSIVE dfs(_, _, _)
        dfs(m, i, best) ==
            IF i > Len(m.Modules) THEN best
            ELSE LET c == m.Modules[i]
                     hit == \/ path = c.Name
                            \/ c.Name # Dot /\ HasPrefix(path, c.Name \o <<"/">>)
                     b1 == IF hit THEN c ELSE best
                 IN  dfs(m, i + 1, dfs(c, 1, b1))
    IN  dfs(root, 1, root)

(***************************************************************************)
(* buildModuleFromFS, step by step                                         *)
(***************************************************************************)

\* The files a build may be given, in the order of the walk that selects
\* them.
BuildPaths ==
    << <<"a", "/", "b", "/", "c", "/", "f">>,
       <<"a", "/", "b", "/", "d", "/", "f">>,
       <<"a", "/", "b", "/", "f">>,
       <<"a", "/", "d", "/", "f">>,
       <<"a", "/", "f">>,
       <<"e", "/", "f">>,
       <<"f">> >>

\* The token counts a file may have: none, under the minimum, over the
\* minimum, and close to the maximum.
BuildTokens == {0, 6000, 12000, 90000}

MaxFiles == 3

\* The thresholds a build may run with: the initial ones, those of
\* TestBuildTree, and a maximum that two small files just reach.
Thresholds ==
    { [min |-> minTokenCountPerModule, max |-> maxTokenCountPerModule],
      [min |-> minTokenCountPerModule, max |-> TestMaxTokenCount],
      [min |-> minTokenCountPerModule, max |-> 6000 + 6000] }

\* The sublists of the paths chosen by the index set S, in order.
RECURSIVE Pick(_, _)
Pick(S, i) ==
    IF i > Len(BuildPaths) THEN <<>>
    ELSE IF i \in S THEN <<BuildPaths[i]>> \o Pick(S, i + 1) ELSE Pick(S, i + 1)

BuildInputs ==
    UNION { LET names == Pick(S, 1)
            IN  { [i \in 1..Len(names) |-> FileRef(names[i], toks[i])] :
                     toks \in [1..Len(names) -> BuildTokens] } :
            S \in {X \in SUBSET (1..Len(BuildPaths)) : Cardinality(X) <= MaxFiles} }

\* The root module exists and no file has been placed yet.
InitBuild ==
    /\ InitTree({<<>>}, {NoAnn})
    /\ mainpc = "idle"
    /\ mt = MtIdle
    /\ sel = SelIdle
    /\ cmd = CmdIdle
    /\ \E files \in BuildInputs, th \in Thresholds :
          bld = [pc |-> "naive", input |-> files, pending |-> files,
                 tree |-> EmptyModule(Dot),
                 first |-> EmptyModule(Dot),
                 minTokenCountPerModule |-> th.min,
                 maxTokenCountPerModule |-> th.max]

\* The next file is placed in the module of its directory.
BuildAddFile ==
    /\ bld.pc = "naive"
    /\ bld.pending # <<>>
    /\ bld' = [bld EXCEPT !.pending = Tail(@),
                          !.tree = findOrCreateParentModule(@, Head(bld.pending))]
    /\ UNCHANGED <<schedVars, mt, sel, cmd>>

\* The structural collapse, once every file is placed.
BuildCollapseModules ==
    /\ bld.pc = "naive"
    /\ bld.pending = <<>>
    /\ bld' = [bld EXCEPT !.pc = "collapsed", !.tree = collapseModules(@)]
    /\ UNCHANGED <<schedVars, mt, sel, cmd>>

\* The token counts of the collapsed tree.
BuildCount ==
    /\ bld.pc = "collapsed"
    /\ bld' = [bld EXCEPT !.pc = "counted", !.tree = rebuildModule(@, Nil)]
    /\ UNCHANGED <<schedVars, mt, sel, cmd>>

\* The budget collapse.
BuildCollapseByTokens ==
    /\ bld.pc = "counted"
    /\ bld' = [bld EXCEPT !.pc = "budgeted", !.tree = collapseByTokens(@)]
    /\ UNCHANGED <<schedVars, mt, sel, cmd>>

\* The tree delivered: rebuilt, so that counts are those of the final
\* shape.
BuildRebuild ==
    /\ bld.pc = "budgeted"
    /\ bld' = [bld EXCEPT !.pc = "done", !.tree = rebuildModule(@, Nil)]
    /\ UNCHANGED <<schedVars, mt, sel, cmd>>

\* The two passes run once more on the tree delivered, which is kept in
\* first: the structural collapse ...
BuildAgainCollapseModules ==
    /\ bld.pc = "done"
    /\ bld' = [bld EXCEPT !.pc = "again", !.first = bld.tree,
                          !.tree = collapseModules(@)]
    /\ UNCHANGED <<schedVars, mt, sel, cmd>>

\* ... and the budget collapse.
BuildAgainCollapseByTokens ==
    /\ bld.pc = "again"
    /\ bld' = [bld EXCEPT !.pc = "twice", !.tree = collapseByTokens(@)]
    /\ UNCHANGED <<schedVars, mt, sel, cmd>>

NextBuild ==
    \/ BuildAddFile
    \/ BuildCollapseModules
    \/ BuildCount
    \/ BuildCollapseByTokens
    \/ BuildRebuild
    \/ BuildAgainCollapseModules
    \/ BuildAgainCollapseByTokens

SpecBuild == InitBuild /\ [][NextBuild]_vars

(***************************************************************************)
(* Patch, Update and execute (workspace/project/update.go and              *)
(* cmd/template/template.go)                                               *)
(***************************************************************************)

\* A module of a stored or fresh Metadata: the fields Patch and the name
\* check read.
MetaModule(name, md5, tokens, annotation, modules) ==
    [Name |-> name, MD5 |-> md5, TokenCount |-> tokens,
     Annotation |-> annotation, Modules |-> modules]

\* An empty map.
EmptyMap == [x \in {} |-> x]

\* collectModuleMap that records the module it is given and not its
\* descendants.
collectModuleMap_NoChildren(mod, dst) ==
    [x \in DOMAIN dst \cup {mod.Name} |-> IF x = mod.Name THEN mod ELSE dst[x]]

\* collectModuleMap: dst[Name] is set for the module, then for its
\* descendants, children in order.
RECURSIVE collectModuleMap(_, _)
collectModuleMap(mod, dst) ==
    LET d1 == [x \in DOMAIN dst \cup {mod.Name} |->
                  IF x = mod.Name THEN mod ELSE dst[x]]
        RECURSIVE over(_, _)
        over(i, d) ==
            IF i > Len(mod.Modules) THEN d
            ELSE over(i + 1, collectModuleMap(mod.Modules[i], d))
    IN  over(1, d1)

\* mergeAnnotations that copies the annotation of the module of the same
\* name whatever its hash.
RECURSIVE mergeAnnotations_IgnoreHash(_, _)
mergeAnnotations_IgnoreHash(fresh, oldMap) ==
    LET own == IF /\ fresh.Name \in DOMAIN oldMap
                  /\ oldMap[fresh.Name].Annotation # Nil
               THEN oldMap[fresh.Name].Annotation
               ELSE fresh.Annotation
    IN  [fresh EXCEPT !.Annotation = own,
                      !.Modules = [i \in 1..Len(fresh.Modules) |->
                                      mergeAnnotations_IgnoreHash(fresh.Modules[i], oldMap)]]

\* mergeAnnotations: a fresh module takes the annotation of the old module
\* of the same name when the MD5 is the same and the old annotation is not
\* nil; then its children.
RECURSIVE mergeAnnotations(_, _)
mergeAnnotations(fresh, oldMap) ==
    LET own == IF /\ fresh.Name \in DOMAIN oldMap
                  /\ oldMap[fresh.Name].MD5 = fresh.MD5
                  /\ oldMap[fresh.Name].Annotation # Nil
               THEN oldMap[fresh.Name].Annotation
               ELSE fresh.Annotation
    IN  [fresh EXCEPT !.Annotation = own,
                      !.Modules = [i \in 1..Len(fresh.Modules) |->
                                      mergeAnnotations(fresh.Modules[i], oldMap)]]

\* The PatchResult: the modules of both trees whose hash differs with their
\* previous and current token count, the names only fresh has, the names
\* only stored has.
PatchResult(stored, fresh) ==
    LET old == collectModuleMap(stored, EmptyMap)
        new == collectModuleMap(fresh, EmptyMap)
        changed == {x \in DOMAIN old \cap DOMAIN new : old[x].MD5 # new[x].MD5}
    IN  [ChangedModules |->
             [x \in changed |-> [PreviousTokenCount |-> old[x].TokenCount,
                                 CurrentTokenCount |-> new[x].TokenCount]],
         AddedModules |-> DOMAIN new \ DOMAIN old,
         RemovedModules |-> DOMAIN old \ DOMAIN new]

\* Metadata.Patch: stored takes the structure of fresh, with the
\* annotations stored had for the modules that did not change.
Patch(stored, fresh) ==
    [modules |-> mergeAnnotations(fresh, collectModuleMap(stored, EmptyMap)),
     result |-> PatchResult(stored, fresh)]

\* collectModuleNames: the names of the tree, added to the set.
RECURSIVE collectModuleNames(_, _)
collectModuleNames(m, set) ==
    LET RECURSIVE over(_, _)
        over(i, s) ==
            IF i > Len(m.Modules) THEN s
            ELSE over(i + 1, collectModuleNames(m.Modules[i], s))
    IN  over(1, set \cup {m.Name})

\* equalModuleNameSets without the comparison of the sizes.
equalModuleNameSets_SubsetOnly(a, b) ==
    LET sa == collectModuleNames(a, {})
        sb == collectModuleNames(b, {})
    IN  \A k \in sa : k \in sb

\* equalModuleNameSets: the same number of names, and every name of a is a
\* name of b.
equalModuleNameSets(a, b) ==
    LET sa == collectModuleNames(a, {})
        sb == collectModuleNames(b, {})
    IN  IF Cardinality(sa) # Cardinality(sb) THEN FALSE
        ELSE \A k \in sa : k \in sb

\* The module names of the metadata trees.
ModA == <<"a">>
ModB == <<"b">>
ModAB == <<"a", "/", "b">>

\* The annotation stored for the module of that name.
AnnOf(name) == <<"annotation of">> \o name

\* The hashes a module may have, and the token count that goes with each.
Hashes == {"abc", "def"}

TokensOf(md5) == IF md5 = "abc" THEN 100 ELSE 200

\* The trees of the given hashes h and annotations a (functions of the
\* module name): the root alone, with a, with b, with both, with a and a/b
\* below it.
MetaTrees(H, A(_)) ==
    LET mk(name, h, a, subs) == MetaModule(name, h[name], TokensOf(h[name]), a[name], subs)
    IN  UNION {
          {mk(Dot, h, a, <<>>) :
              h \in [{Dot} -> H], a \in {[k \in {Dot} |-> IF k \in S THEN AnnOf(k) ELSE Nil] : S \in A({Dot})}},
          {mk(Dot, h, a, <<mk(ModA, h, a, <<>>)>>) :
              h \in [{Dot, ModA} -> H],
              a \in {[k \in {Dot, ModA} |-> IF k \in S THEN AnnOf(k) ELSE Nil] : S \in A({Dot, ModA})}},
          {mk(Dot, h, a, <<mk(ModB, h, a, <<>>)>>) :
              h \in [{Dot, ModB} -> H],
              a \in {[k \in {Dot, ModB} |-> IF k \in S THEN AnnOf(k) ELSE Nil] : S \in A({Dot, ModB})}},
          {mk(Dot, h, a, <<mk(ModA, h, a, <<>>), mk(ModB, h, a, <<>>)>>) :
              h \in [{Dot, ModA, ModB} -> H],
              a \in {[k \in {Dot, ModA, ModB} |-> IF k \in S THEN AnnOf(k) ELSE Nil] : S \in A({Dot, ModA, ModB})}},
          {mk(Dot, h, a, <<mk(ModA, h, a, <<mk(ModAB, h, a, <<>>)>>)>>) :
              h \in [{Dot, ModA, ModAB} -> H],
              a \in {[k \in {Dot, ModA, ModAB} |-> IF k \in S THEN AnnOf(k) ELSE Nil] : S \in A({Dot, ModA, ModAB})}} }

AnySubset(names) == SUBSET names

NoSubset(names) == {{}}

\* The stored trees: one hash, any module annotated or not.
StoredTrees == MetaTrees({"abc"}, AnySubset)

\* The fresh trees: built from the file system, without annotations.
FreshTrees == MetaTrees(Hashes, NoSubset)

\* The trees execute is given: no annotation, one hash.
PlainTrees == MetaTrees({"abc"}, NoSubset)

\* filepath.IsAbs.
IsAbs(p) == p # <<>> /\ Head(p) = "/"

\* filepath.Clean: empty and "." elements are dropped, ".." removes the
\* element before it, or is dropped at the root, or is kept at the start of
\* a relative path; the empty result is ".".
CleanPath(p) ==
    LET rooted == IsAbs(p)
        RECURSIVE fold(_, _)
        fold(elems, out) ==
            IF elems = <<>> THEN out
            ELSE LET e == Head(elems)
                 IN  IF e = <<>> \/ e = Dot THEN fold(Tail(elems), out)
                     ELSE IF e = <<".", ".">>
                          THEN IF out # <<>> /\ out[Len(out)] # <<".", ".">>
                               THEN fold(Tail(elems), SubSeq(out, 1, Len(out) - 1))
                               ELSE IF rooted THEN fold(Tail(elems), out)
                                    ELSE fold(Tail(elems), Append(out, e))
                          ELSE fold(Tail(elems), Append(out, e))
        kept == fold(Split(p), <<>>)
    IN  IF rooted
        THEN IF kept = <<>> THEN <<"/">> ELSE <<"/">> \o JoinAll(kept)
        ELSE JoinAll(kept)

\* filepath.Join of two elements: joined by a slash and cleaned.
FilepathJoin(a, b) == CleanPath(a \o <<"/">> \o b)

\* fs.ValidPath: "." or slash-separated elements none of which is empty,
\* "." or "..".
ValidPath(name) ==
    \/ name = Dot
    \/ /\ name # <<>>
       /\ \A e \in Range(Split(name)) : e # <<>> /\ e # Dot /\ e # <<".", ".">>

\* The closure isWithinDir of execute without the separator after dir.
isWithinDir_NoSeparator(dir, candidate) ==
    HasPrefix(CleanPath(candidate), CleanPath(dir))

\* The closure isWithinDir of execute: both paths cleaned, the same path or
\* candidate starts with dir and a separator.
isWithinDir(dir, candidate) ==
    LET d == CleanPath(dir)
        c == CleanPath(candidate)
    IN  d = c \/ HasPrefix(c, d \o <<"/">>)

systemExclusionPatterns ==
    << <<".", "g", "i", "t", "/">>, <<".", "g", "i", "t", "i", "g", "n", "o", "r", "e">>, <<".", "v", "y", "b", "/">>, <<"L", "I", "C", "E", "N", "S", "E">>, <<"g", "o", ".", "s", "u", "m">> >>

\* The project root of the commands, and the directories a command may be
\* run from.
AbsRoot == <<"/", "p">>

WorkingDirs == {<<"/", "p">>, <<"/", "p", "/", "w">>}

\* What fs.Stat finds in the project for a proposed file name: an invalid
\* path is an error that is not "does not exist".
ProjectFiles == {<<"w", "/", "a", ".", "g", "o">>, <<".", "v", "y", "b", "/", "m">>}

ProjectDirs == {<<"w">>, <<"w", "2">>, <<".", "v", "y", "b">>}

StatProposal(name) ==
    IF ~ValidPath(name) THEN "error"
    ELSE IF name \in ProjectFiles THEN "file"
    ELSE IF name \in ProjectDirs \cup {Dot} THEN "dir"
    ELSE "notexist"

\* The file names a proposal of the LLM may carry, to write or to delete.
ProposalNames == {<<"w", "/", "a", ".", "g", "o">>, <<"w", "/", "n", ".", "g", "o">>, <<"w", "2", "/", "b", ".", "g", "o">>, <<".", ".", "/", "x", ".", "g", "o">>, <<".", "v", "y", "b", "/", "m">>}

FileChangeProposals == [FileName : ProposalNames, Delete : BOOLEAN]

MaxProposals == 2

\* The modification inclusion patterns of a command definition; it has no
\* exclusion pattern of its own.
ModificationInclusions == {<< <<"*", ".", "g", "o">> >>, << <<"*">> >>}

\* The validation loop of execute (lines 240-251): the invalid file names.
RECURSIVE invalidFiles(_, _, _)
invalidFiles(proposals, workingDir, incl) ==
    IF proposals = <<>> THEN <<>>
    ELSE LET prop == Head(proposals)
             rest == invalidFiles(Tail(proposals), workingDir, incl)
         IN  IF ~IsIncluded(StatProposal(prop.FileName), prop.FileName,
                            systemExclusionPatterns, incl)
             THEN <<prop.FileName>> \o rest
             ELSE IF ~isWithinDir(workingDir, FilepathJoin(AbsRoot, prop.FileName))
                  THEN <<prop.FileName \o <<"(", "o", "u", "t", "s", "i", "d", "e", " ", "w", "o", "r", "k", "i", "n", "g", "_", "d", "i", "r", ")">>>> \o rest
                  ELSE rest

\* A command starts: Update, or execute from a working directory.
CmdRecord(kind, stored, fresh, workingDir, incl) ==
    [kind |-> kind, pc |-> "start", stored0 |-> stored, stored |-> stored,
     fresh |-> fresh, patched |-> FALSE,
     result |-> PatchResult(fresh, fresh),
     workingDir |-> workingDir, incl |-> incl,
     llmCalls |-> 0, proposals |-> <<>>, todo |-> <<>>, changed |-> {},
     err |-> "none"]

InitCmd ==
    /\ InitTree({<<>>}, {NoAnn})
    /\ mainpc = "idle"
    /\ mt = MtIdle
    /\ sel = SelIdle
    /\ bld = BldIdle
    /\ \/ \E stored \in StoredTrees, fresh \in FreshTrees :
             cmd = CmdRecord("update", stored, fresh, AbsRoot, <<>>)
       \/ \E stored \in PlainTrees, fresh \in PlainTrees,
             wd \in WorkingDirs, incl \in ModificationInclusions :
             cmd = CmdRecord("execute", stored, fresh, wd, incl)

\* Update and execute up to the two trees (update.go lines 52-70,
\* template.go lines 102-162): the context, the configuration, the
\* selection and the metadata are read, and any of them may fail; nothing
\* is written.
CmdLoad ==
    /\ cmd.pc = "start"
    /\ \E ok \in BOOLEAN :
          cmd' = IF ok THEN [cmd EXCEPT !.pc = "loaded"]
                 ELSE [cmd EXCEPT !.pc = "failed", !.err = "load"]
    /\ UNCHANGED <<schedVars, mt, sel, bld>>

\* Update patches the stored metadata with the fresh one (line 73).
UpdatePatch ==
    /\ cmd.kind = "update" /\ cmd.pc = "loaded"
    /\ LET r == Patch(cmd.stored, cmd.fresh)
       IN  cmd' = [cmd EXCEPT !.pc = "patched", !.patched = TRUE,
                              !.stored = r.modules, !.result = r.result]
    /\ UNCHANGED <<schedVars, mt, sel, bld>>

\* Update annotates and writes the metadata file (lines 75-95); either may
\* fail.
UpdateFinish ==
    /\ cmd.kind = "update" /\ cmd.pc = "patched"
    /\ \E ok \in BOOLEAN :
          cmd' = IF ok THEN [cmd EXCEPT !.pc = "done"]
                 ELSE [cmd EXCEPT !.pc = "failed", !.err = "update"]
    /\ UNCHANGED <<schedVars, mt, sel, bld>>

\* execute compares the module names of the two trees (lines 165-167).
ExecCheckNames ==
    /\ cmd.kind = "execute" /\ cmd.pc = "loaded"
    /\ cmd' = IF equalModuleNameSets(cmd.stored, cmd.fresh)
              THEN [cmd EXCEPT !.pc = "checked"]
              ELSE [cmd EXCEPT !.pc = "failed", !.err = "mismatch"]
    /\ UNCHANGED <<schedVars, mt, sel, bld>>

\* execute patches the stored metadata (line 170).
ExecPatch ==
    /\ cmd.kind = "execute" /\ cmd.pc = "checked"
    /\ LET r == Patch(cmd.stored, cmd.fresh)
       IN  cmd' = [cmd EXCEPT !.pc = "patched", !.patched = TRUE,
                              !.stored = r.modules, !.result = r.result]
    /\ UNCHANGED <<schedVars, mt, sel, bld>>

\* execute builds the messages and asks the LLM for proposals (lines
\* 178-223): the call fails or answers with a list of proposals.
ExecRequest ==
    /\ cmd.kind = "execute" /\ cmd.pc = "patched"
    /\ \/ cmd' = [cmd EXCEPT !.pc = "failed", !.err = "llm", !.llmCalls = @ + 1]
       \/ \E ps \in SeqsUpTo(FileChangeProposals, MaxProposals) :
             cmd' = [cmd EXCEPT !.pc = "proposed", !.llmCalls = @ + 1,
                                !.proposals = ps]
    /\ UNCHANGED <<schedVars, mt, sel, bld>>

\* execute validates every proposal and gives up when one is invalid
\* (lines 228-255).
ExecValidate ==
    /\ cmd.kind = "execute" /\ cmd.pc = "proposed"
    /\ cmd' = IF Len(invalidFiles(cmd.proposals, cmd.workingDir, cmd.incl)) > 0
              THEN [cmd EXCEPT !.pc = "failed", !.err = "unallowed"]
              ELSE [cmd EXCEPT !.pc = "valid", !.todo = cmd.proposals]
    /\ UNCHANGED <<schedVars, mt, sel, bld>>

\* applyProposals, one proposal (lines 273-290): the file is removed or
\* written, or the file system refuses and applyProposals returns the
\* error.
ExecApply ==
    /\ cmd.kind = "execute" /\ cmd.pc = "valid" /\ cmd.todo # <<>>
    /\ \/ cmd' = [cmd EXCEPT !.todo = Tail(@),
                             !.changed = @ \cup {FilepathJoin(AbsRoot, Head(cmd.todo).FileName)}]
       \/ cmd' = [cmd EXCEPT !.pc = "failed", !.err = "io"]
    /\ UNCHANGED <<schedVars, mt, sel, bld>>

\* Every proposal is applied: execute returns nil (lines 261-268).
ExecReturn ==
    /\ cmd.kind = "execute" /\ cmd.pc = "valid" /\ cmd.todo = <<>>
    /\ cmd' = [cmd EXCEPT !.pc = "done"]
    /\ UNCHANGED <<schedVars, mt, sel, bld>>

NextCmd ==
    \/ CmdLoad
    \/ UpdatePatch
    \/ UpdateFinish
    \/ ExecCheckNames
    \/ ExecPatch
    \/ ExecRequest
    \/ ExecValidate
    \/ ExecApply
    \/ ExecReturn

SpecCmd == InitCmd /\ [][NextCmd]_vars

(***************************************************************************)
(* NewExecutionContext (workspace/context/context.go)                      *)
(***************************************************************************)

\* The directories and the files of the file system NewExecutionContext
\* looks at: /p is a project, /q has no .vyb, /r has a file named .vyb.
ContextDirs == {<<"/", "p">>, <<"/", "p", "/", ".", "v", "y", "b">>, <<"/", "p", "/", "w">>, <<"/", "p", "/", "w", "/", "s">>, <<"/", "p", "/", "o">>, <<"/", "q">>, <<"/", "r">>}

ContextFiles == {<<"/", "p", "/", "w", "/", "f">>, <<"/", "p", "/", "w", "/", "s", "/", "g">>, <<"/", "p", "/", "o", "/", "h">>, <<"/", "r", "/", ".", "v", "y", "b">>}

\* os.Stat of a clean absolute path.
StatAbs(p) ==
    IF p \in ContextDirs THEN "dir"
    ELSE IF p \in ContextFiles THEN "file" ELSE "notexist"

\* startsWithDotDot.
startsWithDotDot(rel) == rel = <<".", ".">> \/ HasPrefix(rel, <<".", ".", "/">>)

\* isDescendant: the path from parent to child is "." or does not start by
\* climbing; filepath.Rel does not fail between two absolute paths.
isDescendant(par, child) ==
    LET rel == Rel(par, child)
    IN  rel = Dot \/ ~startsWithDotDot(rel)

\* NewExecutionContext: the checks in the order of the code, then the
\* context of the cleaned paths.  targetFile is Nil for a nil pointer; the
\* returned pointer is <<>> for nil and <<context>> otherwise.
NewExecutionContext(projectRoot, workingDir, targetFile) ==
    LET failure(e) == [err |-> e, ec |-> <<>>]
        targetAbs == CleanPath(targetFile)
        root == CleanPath(projectRoot)
        work == CleanPath(workingDir)
    IN  IF ~IsAbs(projectRoot) \/ ~IsAbs(workingDir) THEN failure("not absolute")
        ELSE IF targetFile # Nil /\ ~IsAbs(targetFile) THEN failure("target not absolute")
        ELSE IF StatAbs(FilepathJoin(root, <<".", "v", "y", "b">>)) # "dir" THEN failure("no .vyb")
        ELSE IF ~isDescendant(root, work) THEN failure("workingDir outside")
        ELSE IF targetFile # Nil
             THEN IF StatAbs(targetAbs) = "notexist" THEN failure("no target")
                  ELSE IF StatAbs(targetAbs) = "dir" THEN failure("target is a directory")
                  ELSE IF ~isDescendant(work, targetAbs) THEN failure("target outside")
                  ELSE [err |-> "none",
                        ec |-> <<[ProjectRoot |-> root, WorkingDir |-> work,
                                 TargetDir |-> CleanPath(Dir(targetAbs))]>>]
             ELSE [err |-> "none",
                   ec |-> <<[ProjectRoot |-> root, WorkingDir |-> work,
                            TargetDir |-> CleanPath(work)]>>]

\* The arguments NewExecutionContext may be called with.
ContextRoots == {<<"/", "p">>, <<"/", "q">>, <<"/", "r">>, <<"p">>, <<"/", "p", "/", "w", "/", ".", ".">>, <<"/", "p", "/", "w">>}

ContextWorkingDirs ==
    {<<"/", "p">>, <<"/", "p", "/", "w">>, <<"/", "p", "/", "w", "/", "s">>, <<"/", "p", "/", "o">>, <<"/", "q">>, <<"w">>, <<"/", "p", "/", "w", "/", "f">>, <<"/", "p", "/", "n">>, <<"/", "p", "/", "w", "/", ".", ".", "/", "o">>, <<"/", "p", "/">>}

ContextTargets ==
    {Nil, <<"/", "p", "/", "w", "/", "f">>, <<"/", "p", "/", "w", "/", "s", "/", "g">>, <<"/", "p", "/", "o", "/", "h">>, <<"/", "p", "/", "w">>, <<"/", "p", "/", "w", "/", "z", "z">>, <<"w", "/", "f">>, <<"/", "p", "/", "w", "/", "s", "/", ".", ".", "/", "f">>}

InitContext ==
    /\ InitTree({<<>>}, {NoAnn})
    /\ mainpc = "idle"
    /\ mt = MtIdle
    /\ sel = SelIdle
    /\ bld = BldIdle
    /\ \E r \in ContextRoots, w \in ContextWorkingDirs, t \in ContextTargets :
          cmd = [kind |-> "context", pc |-> "start", projectRoot |-> r,
                 workingDir |-> w, targetFile |-> t, err |-> "none", ec |-> <<>>]

\* NewExecutionContext returns.
CallNewExecutionContext ==
    /\ cmd.kind = "context" /\ cmd.pc = "start"
    /\ LET r == NewExecutionContext(cmd.projectRoot, cmd.workingDir, cmd.targetFile)
       IN  cmd' = [cmd EXCEPT !.pc = "returned", !.err = r.err, !.ec = r.ec]
    /\ UNCHANGED <<schedVars, mt, sel, bld>>

NextContext == CallNewExecutionContext

SpecContext == InitContext /\ [][NextContext]_vars


(***************************************************************************)
(* Accesses to Module.Annotation, for the data races                       *)
(***************************************************************************)

\* The modules whose Annotation the next step of m's goroutine reads: the
\* children's when the request is built (lines 122-126), its own when the
\* answer is stored (lines 175-188).
TaskReads(m) ==
    IF WaitOver(m) THEN Range(Modules(m))
    ELSE IF pc[m] = "write" THEN {m} ELSE {}

\* The modules whose Annotation the next step of m's goroutine writes: its
\* own, when the answer is stored (lines 175-193).
TaskWrites(m) == IF pc[m] = "write" THEN {m} ELSE {}

\* The modules whose Annotation the next step of annotate reads: all of them
\* in the pre-close and launch loops (lines 43, 50) and when the whole-tree
\* request is built (lines 230, 253-255); those named by the response in the
\* write-back (line 296).
MainWrites ==
    IF mainpc = "extWrite"
    THEN {moduleMap(resp[i].name) : i \in 1..Len(resp)} \ {0}
    ELSE {}

MainReads ==
    IF mainpc \in {"start", "launch", "extBuild"} THEN Mods ELSE MainWrites

\* Two goroutines are about to access the same Annotation, one of them
\* writing, with nothing that orders the two accesses.
DataRace ==
    \E m \in Mods :
        \/ \E t \in Mods : m \in TaskWrites(t) /\ m \in MainReads \cup MainWrites
        \/ \E t \in Mods : m \in TaskReads(t) /\ m \in MainWrites
        \/ \E t1, t2 \in Mods : /\ t1 # t2
                                /\ m \in TaskWrites(t1)
                                /\ m \in TaskReads(t2) \cup TaskWrites(t2)

(***************************************************************************)
(* Properties of the annotation scheduler                                  *)
(***************************************************************************)

\* addOrUpdateSelfContainedContext(m) has been entered by m's goroutine.
Summarizing(m) ==
    pc[m] \in {"call", "write", "sendErr", "close", "done"} \/ outcome[m] # "none"

\* m's goroutine has been launched and has not finished.
InFlight(m) == pc[m] \in {"wait", "call", "write", "sendErr", "close"}

\* C1: the per-module Summarizer call of a module starts only after the
\* completion signal of each of its direct children has fired, that is after
\* the child's own call has returned (with a result or an error) or the child
\* was annotated from the start.
C1_ChildrenBeforeParent ==
    \A m \in Mods : \A c \in Range(children[m]) :
        Summarizing(m) =>
            /\ dones[c] = "closed"
            /\ ~ann0[c].isNil \/ outcome[c] \in {"ok", "err"}

\* In the three-level tree the task of A is inside its Summarizer call after
\* the task of G has failed.
C1_Witness ==
    /\ parent = ThreeLevelTree
    /\ pc[2] = "call"
    /\ ann0[4].isNil
    /\ outcome[4] = "err"

\* C2: when the Summarizer call of some module has failed, annotate does not
\* return nil and the whole-tree external-context request is not issued.
C2_FailureAborts ==
    (\E m \in Mods : outcome[m] = "err") =>
        /\ ~(mainpc = "returned" /\ retErr = "nil")
        /\ extCalls = 0

\* C3: when annotate has returned, no per-module task is still in flight.
C3_NoTaskInFlightAtReturn ==
    mainpc = "returned" => \A m \in Mods : pc[m] \in {"none", "done"}

\* C4: while the whole-tree external-context request is built, in flight or
\* written back, every module was annotated from the start or its task has
\* completed, and no per-module task runs.
C4_ExtAfterAllTasks ==
    (mainpc \in {"extCall", "extWrite"} \/ extCalls > 0) =>
        \A m \in Mods : /\ ~ann0[m].isNil \/ outcome[m] # "none"
                        /\ ~InFlight(m)

\* C5: no two goroutines ever access the same Annotation concurrently with
\* one of them writing.
C5_NoDataRace == ~DataRace

\* C6: once the launch loop is over, exactly one task has been launched for
\* each module that lacked a valid (non-empty) Annotation when annotate
\* started (it had none, or one with nothing in it) and none for any other
\* module, and the completion signals of the other modules were satisfied
\* before any task ran.
C6_OneTaskPerUnannotated ==
    LET LacksValidAnnotation(a) == a.isNil \/ (a.ext = "" /\ a.int = "" /\ a.pub = "")
    IN  mainpc \notin {"start", "launch", "idle"} =>
            \A m \in Mods :
                /\ launches[m] = IF LacksValidAnnotation(ann0[m]) THEN 1 ELSE 0
                /\ ~LacksValidAnnotation(ann0[m]) => dones[m] = "closed"

\* C7: every launched task eventually fires its completion signal and
\* annotate eventually returns.
C7_EventuallySettles ==
    <>(/\ mainpc = "returned"
       /\ \A m \in Mods : launches[m] > 0 => dones[m] = "closed")

\* C8: a task whose direct children have all fired their completion signals
\* can take its next step towards the Summarizer call, whatever the state of
\* the modules outside its subtree.
C8_WaitsOnlyForChildren ==
    \A m \in Mods :
        (pc[m] = "wait" /\ \A c \in Range(children[m]) : dones[c] = "closed")
            => ENABLED (TaskWait(m) \/ TaskBuild(m))

\* In the three-level tree the task of B has completed while the task of G
\* has not and the task of A waits for G.
C8_Witness ==
    /\ parent = ThreeLevelTree
    /\ pc[3] = "done"
    /\ pc[4] \in {"wait", "call"}
    /\ pc[2] = "wait"
    /\ waitIdx[2] = 1

(***************************************************************************)
(* Properties of addOrUpdateExternalContext                                *)
(***************************************************************************)

\* The string is empty or holds white space only.
Blank(s) == s \in {"", " "}

\* The entry of the whole-tree request for module m, from the annotations
\* the tree had when addOrUpdateExternalContext was called.
ExpectedEntry(m) ==
    [name |-> Name(m),
     parentName |-> IF m = 1 THEN "" ELSE Name(parent[m]),
     internal |-> ann0[m].int,
     public |-> ann0[m].pub]

\* The indexes of the response entries that name module m.
EntriesFor(m) == {i \in 1..Len(resp) : resp[i].name = Name(m)}

\* The request has one entry per module, holding its name, its parent's name
\* and its internal and public contexts; and once the response is written
\* back, every module named by it has the returned external context (of the
\* last entry that names it) and its other contexts as before, and every
\* other module is as before.
RequestAndWriteBack ==
    /\ extCalls <= 1
    /\ extCalls = 1 =>
          /\ Len(req) = n
          /\ \A m \in Mods : Cardinality({i \in 1..Len(req) : req[i] = ExpectedEntry(m)}) = 1
    /\ (mainpc = "returned" /\ retErr = "nil" /\ extCalls = 1) =>
          \A m \in Mods :
              IF EntriesFor(m) = {} THEN ann[m] = ann0[m]
              ELSE LET last == CHOOSE i \in EntriesFor(m) : \A j \in EntriesFor(m) : j <= i
                   IN  ann[m] = Annotation(resp[last].ext, ann0[m].int, ann0[m].pub)

\* C9, as amended: addOrUpdateExternalContext issues no request if and only
\* if every non-root module carries an ExternalContext that is not blank
\* (not empty once white space is trimmed); otherwise it issues exactly one
\* whole-tree request with one entry per module, and writes each returned
\* external context to the module that has the returned name.
C9_ExternalContextBatch ==
    /\ mainpc # "extBuild" =>
          (extCalls = 0 <=> \A m \in Mods \ {1} : ~ann0[m].isNil /\ ~Blank(ann0[m].ext))
    /\ RequestAndWriteBack

\* C9, as claimed: no request if and only if every non-root module carries a
\* non-empty ExternalContext.
C9_AsClaimed ==
    /\ mainpc # "extBuild" =>
          (extCalls = 0 <=> \A m \in Mods \ {1} : ~ann0[m].isNil /\ ann0[m].ext # "")
    /\ RequestAndWriteBack

\* Every non-root module had a non-empty ExternalContext, one of them of
\* white space only; the request was issued and the answer written to it.
C9_Witness ==
    /\ mainpc = "returned"
    /\ extCalls = 1
    /\ n > 1
    /\ \A m \in Mods \ {1} : ~ann0[m].isNil /\ ann0[m].ext # ""
    /\ \E m \in Mods \ {1} : ann0[m].ext = " " /\ ann[m].ext = "x1"

(***************************************************************************)
(* Properties of the matcher                                               *)
(***************************************************************************)

\* What IsExcluded returned for the path d.
ExcludedResult(d) == \E e \in mt.excluded : e.p = d /\ e.r

\* C10: when IsExcluded is true for an ancestor directory of the path (a
\* directory-only exclusion pattern matches the ancestor), IsIncluded is
\* false for the path, and IsExcluded is true for the path if it exists,
\* whatever negated patterns the exclusion list holds and wherever.
C10_DirExclusionAbsolute ==
    (mt.incDone /\ mt.excDone) =>
        \A d \in Ancestors(mt.path) :
            ExcludedResult(d) =>
                /\ ~mt.included
                /\ mt.stat \in {"file", "dir"} => ExcludedResult(mt.path)

\* The file a/b with the exclusions ["a/", "!a/b"] and the inclusion ["*"]:
\* the directory a is excluded, and the later negation that names the file
\* does not bring it back.
C10_Witness ==
    /\ mt.incDone /\ mt.excDone
    /\ mt.path = <<"a", "/", "b">>
    /\ mt.stat = "file"
    /\ mt.excl = <<<<"a", "/">>, <<"!", "a", "/", "b">>>>
    /\ mt.incl = <<<<"*">>>>
    /\ ExcludedResult(<<"a">>)
    /\ ~mt.included

\* The exclusion pattern at index i of the list matches the path.
ExclHit(i) ==
    /\ mt.excl[i] # <<>>
    /\ matchesPattern(mt.stat = "dir", mt.path, ActualPattern(mt.excl[i]), FALSE)

\* The inclusion pattern at index i of the list matches the path.
InclHit(i) ==
    /\ mt.incl[i] # <<>>
    /\ matchesPattern(mt.stat = "dir", mt.path, ActualPattern(mt.incl[i]), TRUE)

\* IsExcluded has answered for the path itself, which exists.
ExcludedKnown == mt.excDone /\ mt.stat \in {"file", "dir"}

\* C11: when no directory-only exclusion pattern matches the path, the last
\* exclusion pattern of the list that matches it decides: the path is
\* excluded if and only if that pattern is not negated.  An excluded path is
\* not included, whatever the inclusion list.  With the exclusions
\* ["dir/*", "!dir/foo.txt"], dir/foo.txt is included by ["dir/foo.txt"] and
\* dir/bar.txt is not included by ["dir/bar.txt"].
C11_LastMatchDecides ==
    LET hits == {i \in 1..Len(mt.excl) : ExclHit(i)}
        dirHit == \E i \in hits : ~Negated(mt.excl[i]) /\ isDirMatcher(mt.excl[i])
        last == CHOOSE i \in hits : \A j \in hits : j <= i
        E == << <<"d", "i", "r", "/", "*">>, <<"!">> \o DirFoo >>
    IN  /\ (ExcludedKnown /\ ~dirHit) =>
              (ExcludedResult(mt.path) <=> (hits # {} /\ ~Negated(mt.excl[last])))
        /\ (ExcludedKnown /\ mt.incDone /\ ExcludedResult(mt.path)) => ~mt.included
        /\ (mt.incDone /\ mt.stat = "file" /\ mt.excl = E) =>
              /\ (mt.path = DirFoo /\ mt.incl = <<DirFoo>>) => mt.included
              /\ (mt.path = DirBar /\ mt.incl = <<DirBar>>) => ~mt.included

\* dir/foo.txt with the exclusions ["dir/*", "!dir/foo.txt"] and the
\* inclusion ["dir/foo.txt"]: both exclusion patterns match, the negated one
\* last, and the file is included.
C11_Witness ==
    /\ mt.incDone /\ mt.excDone
    /\ mt.stat = "file"
    /\ mt.path = DirFoo
    /\ mt.excl = << <<"d", "i", "r", "/", "*">>, <<"!">> \o DirFoo >>
    /\ mt.incl = <<DirFoo>>
    /\ ExclHit(1) /\ ExclHit(2)
    /\ ~ExcludedResult(mt.path)
    /\ mt.included

\* C12: for a path that is not excluded, IsIncluded is true if and only if
\* the path matches a non-negated inclusion pattern and no negated inclusion
\* pattern that stands later in the list; with an empty inclusion list
\* IsIncluded is false.
C12_LaterNegationWins ==
    (ExcludedKnown /\ mt.incDone /\ ~ExcludedResult(mt.path)) =>
        /\ mt.included <=>
              \E i \in 1..Len(mt.incl) :
                  /\ ~Negated(mt.incl[i]) /\ InclHit(i)
                  /\ ~\E j \in (i + 1)..Len(mt.incl) : Negated(mt.incl[j]) /\ InclHit(j)
        /\ mt.incl = <<>> => ~mt.included

\* The last segment of a path.
LastSegment(path) == Split(path)[Len(Split(path))]

\* C13: a pattern without a slash matches a path, file or directory, at any
\* depth, if and only if it matches the last segment of the path.
C13_BasenameAtAnyDepth ==
    mt.patDone =>
        \A e \in mt.matched :
            (e.pat # <<>> /\ ~Contains(e.pat, "/")) =>
                (e.r <=> matchSingleSegment(LastSegment(mt.path), e.pat))

(***************************************************************************)
(* Properties of the file selector                                         *)
(***************************************************************************)

\* The path p lies under the directory d.
Under(p, d) == d = Dot \/ HasPrefix(p, d \o <<"/">>)

\* The directory the selection is confined to: ec.TargetDir, or the start
\* directory derived from the base directory and the target.
TargetDir == IF sel.version = "ec" THEN sel.target ELSE sel.start

\* C14: every path Select returns lies under TargetDir: no file of a sibling
\* directory, of a directory whose name starts with TargetDir's name, or of
\* an ancestor directory is returned, whatever the patterns are.
C14_TargetDirIsolation ==
    \A i \in 1..Len(sel.results) : Under(sel.results[i], TargetDir)

\* With TargetDir "work" and the inclusion "*", files are returned while the
\* tree holds files in "other", in "works" and in the root.
C14_Witness ==
    /\ sel.pc = "done"
    /\ TargetDir = Work
    /\ sel.incl = <<<<"*">>>>
    /\ sel.files = AllFiles
    /\ sel.results # <<>>

\* C15: when the exclusions accumulated for a directory the walk reaches
\* mark it excluded, no file beneath it is returned, its ignore file and those
\* of the directories beneath it are never read, and no exclusion set is
\* built for any of them.
C15_ExcludedDirPruned ==
    \A r \in sel.reached :
        matchesExclusionPatterns(TRUE, r.p, r.excl) =>
            /\ \A i \in 1..Len(sel.results) : ~Under(sel.results[i], r.p)
            /\ \A d \in DirPaths : (d = r.p \/ Under(d, r.p)) =>
                   (d \notin sel.read /\ ~sel.eff[d].ok)

\* The directory "work" holds an ignore file and is excluded; Select returns
\* files of the other directories.
C15_Witness ==
    /\ sel.pc = "done"
    /\ Work \in sel.skipped
    /\ sel.ignore[Work] # NoFile
    /\ sel.incl = <<<<"*">>>>
    /\ sel.results # <<>>

\* The exclusions accumulated for a path, from the project root down: the
\* caller's patterns, and the patterns of the ignore file of every directory
\* from the project root to the directory that holds the path.
RECURSIVE AccumulatedFor(_)
AccumulatedFor(p) ==
    IF p = Dot THEN sel.excl
    ELSE AccumulatedFor(Dir(p))
         \o (IF sel.ignore[Dir(p)] = NoFile THEN <<>> ELSE parseGitignore(sel.ignore[Dir(p)]))
         \o sel.excl

\* The files Select is to return: those under TargetDir that have no
\* excluded ancestor directory and that IsIncluded accepts with the
\* accumulated exclusions and the caller's inclusions.
Selected ==
    {f \in Range(WalkOrder) :
        /\ FileExists(f)
        /\ Under(f, TargetDir)
        /\ \A d \in DirPaths :
              Under(f, d) => ~matchesExclusionPatterns(TRUE, d, AccumulatedFor(d))
        /\ IsIncluded("file", f, AccumulatedFor(f), sel.incl)}

\* C16: Select, called with an ExecutionContext, returns exactly the files
\* under TargetDir that have no excluded ancestor and that IsIncluded accepts
\* with the accumulated exclusions; for the files work/a.txt,
\* work/sub/c.txt, other/x.txt, TargetDir work/sub and the inclusion "*",
\* that is work/sub/c.txt alone.
C16_SelectsExactly ==
    (sel.pc = "done" /\ sel.version = "ec" /\ sel.err = "nil") =>
        /\ Range(sel.results) = Selected
        /\ (/\ sel.files = IsolationFiles
            /\ sel.target = WorkSub
            /\ sel.incl = <<<<"*">>>>
            /\ sel.excl = <<>>
            /\ \A d \in DirPaths : sel.ignore[d] = NoFile)
           => sel.results = <<<<"w", "o", "r", "k", "/", "s", "u", "b", "/", "c", ".", "t", "x", "t">>>>

\* C17: a pattern of the ignore file of the directory "work" is evaluated
\* relative to "work": "/x.txt" excludes work/x.txt, "sub/x.txt" excludes
\* work/sub/x.txt, and neither applies to x.txt or sub/x.txt of the project
\* root.
C17_IgnoreRelativeToItsDir ==
    (sel.pc = "done" /\ Work \in sel.read) =>
        /\ <<"/", "x", ".", "t", "x", "t">> \in Range(sel.ignore[Work]) => <<"w", "o", "r", "k", "/", "x", ".", "t", "x", "t">> \notin Range(sel.results)
        /\ <<"s", "u", "b", "/", "x", ".", "t", "x", "t">> \in Range(sel.ignore[Work]) => <<"w", "o", "r", "k", "/", "s", "u", "b", "/", "x", ".", "t", "x", "t">> \notin Range(sel.results)

(***************************************************************************)
(* The module tree builder: token counts and the two collapses             *)
(***************************************************************************)

\* The modules of the tree rooted in m, m included.
RECURSIVE ModulesOf(_)
ModulesOf(m) ==
    {m} \cup UNION {ModulesOf(m.Modules[i]) : i \in 1..Len(m.Modules)}

\* The pairs <<p, c>> of a module p of the tree rooted in m and a child
\* module c of p.
ParentChildPairs(m) ==
    UNION {{<<p, p.Modules[i]>> : i \in 1..Len(p.Modules)} : p \in ModulesOf(m)}

\* The token counts of a module's own files, added up one by one.
LocalTokens(m) ==
    LET RECURSIVE upTo(_)
        upTo(k) == IF k = 0 THEN 0 ELSE upTo(k - 1) + m.Files[k].TokenCount
    IN  upTo(Len(m.Files))

\* The TokenCount of a module's children, added up one by one.
ChildrenTokens(m) ==
    LET RECURSIVE upTo(_)
        upTo(k) == IF k = 0 THEN 0 ELSE upTo(k - 1) + m.Modules[k].TokenCount
    IN  upTo(Len(m.Modules))

\* Some file of the tree sits in a module that is not its directory's: a
\* budget merge has moved it.
BudgetMerged(m) ==
    \E x \in ModulesOf(m) : \E i \in 1..Len(x.Files) : Dir(x.Files[i].Name) # x.Name

\* One child module and no direct file.
SingleChildNoFiles(m) == Len(m.Modules) = 1 /\ Len(m.Files) = 0

\* c could be merged into p: its local token count is under the minimum and
\* p's would stay within the maximum.
EligibleMerge(p, c) ==
    /\ LocalTokens(c) < bld.minTokenCountPerModule
    /\ LocalTokens(p) + LocalTokens(c) <= bld.maxTokenCountPerModule

\* C18: in the tree the builder delivers, every module's TokenCount is the
\* token count of its own files plus the TokenCount of its child modules,
\* its localTokenCount is the token count of its own files, and so
\* TokenCount is never below the local count.
C18_TokenCountIsLocalPlusChildren ==
    bld.pc = "done" =>
        \A m \in ModulesOf(bld.tree) :
            /\ m.TokenCount = LocalTokens(m) + ChildrenTokens(m)
            /\ m.localTokenCount = LocalTokens(m)
            /\ m.TokenCount >= m.localTokenCount

\* A delivered tree in which a budget merge has moved files and a module
\* other than the root has files and children that both count.
C18_Witness ==
    /\ bld.pc = "done"
    /\ BudgetMerged(bld.tree)
    /\ \E m \in ModulesOf(bld.tree) :
          /\ m.Name # Dot
          /\ LocalTokens(m) > 0
          /\ ChildrenTokens(m) > 0

\* C19: from the structural collapse on, no module other than the root has
\* exactly one child module and no direct file; right after the structural
\* collapse every module holding files carries the full path of their
\* directory; the budget collapse creates no such module; the root keeps
\* the name ".".
C19_NoSingleChildPassThrough ==
    /\ bld.pc # "off" => bld.tree.Name = Dot
    /\ bld.pc \in {"collapsed", "counted", "budgeted", "done"} =>
          \A m \in ModulesOf(bld.tree) : m.Name # Dot => ~SingleChildNoFiles(m)
    /\ bld.pc = "collapsed" =>
          \A m \in ModulesOf(bld.tree) :
              \A i \in 1..Len(m.Files) : Dir(m.Files[i].Name) = m.Name

\* A delivered tree where a chain of directories was collapsed into a child
\* of the root named by a path of several elements, and where the budget
\* collapse has merged a module as well.
C19_Witness ==
    /\ bld.pc = "done"
    /\ \E i \in 1..Len(bld.tree.Modules) : Contains(bld.tree.Modules[i].Name, "/")
    /\ BudgetMerged(bld.tree)

RECURSIVE Shape(_)
Shape(m) ==
    [Name |-> m.Name, Files |-> m.Files, localTokenCount |-> m.localTokenCount,
     Modules |-> [i \in 1..Len(m.Modules) |-> Shape(m.Modules[i])]]

\* C21: collapseModules followed by collapseByTokens, run a second time on
\* the tree they produced, change nothing: names, structure, files of each
\* module and local token counts are those of the first run, whatever the
\* files and the thresholds.
C21_CollapseIdempotent ==
    /\ bld.pc = "again" => Shape(bld.tree) = Shape(bld.first)
    /\ bld.pc = "twice" => Shape(bld.tree) = Shape(bld.first)

\* The second run has ended on a tree in which the first run collapsed a
\* chain of directories, merged a small module and left one that did not
\* fit.
C21_Witness ==
    /\ bld.pc = "twice"
    /\ \E x \in ModulesOf(bld.first) : Contains(x.Name, "/")
    /\ BudgetMerged(bld.first)
    /\ \E pc2 \in ParentChildPairs(bld.first) :
          /\ pc2[1].Name # Dot
          /\ LocalTokens(pc2[2]) < bld.minTokenCountPerModule

\* The modules of the tree rooted in m that hold the file f, one per place
\* in a Files list.
Holders(m, f) ==
    {<<x, i>> \in ModulesOf(m) \X (1..MaxFiles + 1) :
        i <= Len(x.Files) /\ x.Files[i] = f}

\* The name is the root's or a directory prefix of the path.
IsPathPrefix(name, path) == name = Dot \/ HasPrefix(path, name \o <<"/">>)

\* The number of path elements of a module name, none for the root.
Depth(name) == IF name = Dot THEN 0 ELSE Len(Split(name))

\* x is the deepest module of the tree rooted in m whose name is a path
\* prefix of the path, and the only one that deep.
DeepestPrefix(m, x, path) ==
    /\ IsPathPrefix(x.Name, path)
    /\ \A y \in ModulesOf(m) :
          IsPathPrefix(y.Name, path) /\ y # x => Depth(y.Name) < Depth(x.Name)

\* C22: in the tree delivered every input file is in the Files of exactly
\* one module, once; that module is the deepest one whose name is a path
\* prefix of the file's path; FindModule gives that module, and the root
\* for a file of the root directory.
C22_FileInDeepestPrefixModule ==
    bld.pc = "done" =>
        \A k \in 1..Len(bld.input) :
            LET f == bld.input[k]
                hs == Holders(bld.tree, f)
            IN  /\ Cardinality(hs) = 1
                /\ \A h \in hs :
                      /\ DeepestPrefix(bld.tree, h[1], f.Name)
                      /\ FindModule(bld.tree, f.Name) = h[1]
                /\ Dir(f.Name) = Dot => FindModule(bld.tree, f.Name) = bld.tree

\* A delivered tree with a file of the root directory, a file that a budget
\* merge moved to an ancestor of its directory, and a file found in a
\* module nested in another module.
C22_Witness ==
    /\ bld.pc = "done"
    /\ \E k \in 1..Len(bld.input) : Dir(bld.input[k].Name) = Dot
    /\ BudgetMerged(bld.tree)
    /\ \E k \in 1..Len(bld.input) :
          \E pc2 \in ParentChildPairs(bld.tree) :
              /\ pc2[1].Name # Dot
              /\ FindModule(bld.tree, bld.input[k].Name) = pc2[2]

(***************************************************************************)
(* Patch, the name check of execute and the proposals                      *)
(***************************************************************************)

\* The names of the modules of a tree.
NamesOf(tree) == {x.Name : x \in ModulesOf(tree)}

\* The modules of that name in a tree.
Named(tree, name) == {x \in ModulesOf(tree) : x.Name = name}

\* A tree without its annotations.
RECURSIVE Bare(_)
Bare(m) ==
    [m EXCEPT !.Annotation = Nil,
              !.Modules = [i \in 1..Len(m.Modules) |-> Bare(m.Modules[i])]]

\* C23: after Patch every module of the fresh tree is in the result once,
\* with the Annotation stored had for its name when stored has a module of
\* that name with the same MD5, and with none otherwise.
C23_PatchKeepsValidAnnotations ==
    cmd.patched =>
        \A x \in ModulesOf(cmd.fresh) :
            LET same == {o \in Named(cmd.stored0, x.Name) : o.MD5 = x.MD5}
            IN  /\ Cardinality(Named(cmd.stored, x.Name)) = 1
                /\ \A r \in Named(cmd.stored, x.Name) :
                      /\ same # {} => \A o \in same : r.Annotation = o.Annotation
                      /\ same = {} => r.Annotation = Nil

\* Update has patched: one module kept its annotation, one annotated
\* module changed and lost it, one module is new.
C23_Witness ==
    /\ cmd.kind = "update" /\ cmd.patched
    /\ \E r \in ModulesOf(cmd.stored) :
          r.Annotation # Nil /\ \E o \in Named(cmd.stored0, r.Name) : o.MD5 = r.MD5
    /\ \E r \in ModulesOf(cmd.stored) :
          r.Annotation = Nil
          /\ \E o \in Named(cmd.stored0, r.Name) : o.MD5 # r.MD5 /\ o.Annotation # Nil
    /\ \E r \in ModulesOf(cmd.stored) : Named(cmd.stored0, r.Name) = {}

C25_MismatchFailsBeforePatch ==
    cmd.kind = "execute" =>
        LET equal == NamesOf(cmd.stored0) = NamesOf(cmd.fresh)
        IN  /\ equalModuleNameSets(cmd.stored0, cmd.fresh) <=> equal
            /\ cmd.err = "mismatch" =>
                  ~equal /\ cmd.pc = "failed" /\ ~cmd.patched
                  /\ cmd.llmCalls = 0 /\ cmd.changed = {}
            /\ ~equal =>
                  /\ ~cmd.patched /\ cmd.llmCalls = 0 /\ cmd.changed = {}
                  /\ cmd.pc \in {"start", "loaded", "failed"}
                  /\ cmd.pc = "failed" => cmd.err \in {"load", "mismatch"}

\* execute has failed on two trees with different module names.
C25_Witness ==
    /\ cmd.kind = "execute"
    /\ cmd.pc = "failed" /\ cmd.err = "mismatch"
    /\ NamesOf(cmd.fresh) \ NamesOf(cmd.stored0) # {}

\* The elements of the path a proposed file name stands for, from the
\* project root: ".." climbs one element, never above the top.
Resolved(name) ==
    LET RECURSIVE walkUp(_, _)
        walkUp(elems, at) ==
            IF elems = <<>> THEN at
            ELSE IF Head(elems) = <<".", ".">>
                 THEN walkUp(Tail(elems),
                             IF at = <<>> THEN at ELSE SubSeq(at, 1, Len(at) - 1))
                 ELSE IF Head(elems) \in {<<>>, Dot} THEN walkUp(Tail(elems), at)
                 ELSE walkUp(Tail(elems), Append(at, Head(elems)))
    IN  walkUp(Split(name), Tail(Split(AbsRoot)))

\* The path elems is the directory dir or lies below it.
InsideDir(elems, dir) ==
    LET d == Tail(Split(dir))
    IN  Len(d) <= Len(elems) /\ SubSeq(elems, 1, Len(d)) = d

\* The proposal passes the modification patterns and stays in the working
\* directory.
ValidProposal(prop) ==
    /\ IsIncluded(StatProposal(prop.FileName), prop.FileName,
                  systemExclusionPatterns, cmd.incl)
    /\ InsideDir(Resolved(prop.FileName), cmd.workingDir)

\* C27: execute changes files only when every proposal passes the
\* modification patterns and resolves inside the working directory; every
\* file changed is inside the working directory; when one proposal does
\* not pass, execute fails and no file is changed.
C27_ProposalsAllOrNothing ==
    cmd.kind = "execute" =>
        /\ cmd.changed # {} =>
              \A i \in 1..Len(cmd.proposals) : ValidProposal(cmd.proposals[i])
        /\ \A path \in cmd.changed : InsideDir(Tail(Split(path)), cmd.workingDir)
        /\ (\E i \in 1..Len(cmd.proposals) : ~ValidProposal(cmd.proposals[i])) =>
              /\ cmd.changed = {}
              /\ cmd.pc \in {"proposed", "failed"}
              /\ cmd.pc = "failed" => cmd.err = "unallowed"

\* execute has applied two proposals from a working directory below the
\* project root.
C27_Witness ==
    /\ cmd.kind = "execute" /\ cmd.pc = "done"
    /\ cmd.workingDir # AbsRoot
    /\ Len(cmd.proposals) = 2
    /\ Cardinality(cmd.changed) = 2

(***************************************************************************)
(* The execution context                                                   *)
(***************************************************************************)

\* The elements of the place an absolute path names: empty and "."
\* elements do not move, ".." climbs one element, never above the top.
PlaceOf(p) ==
    LET RECURSIVE go(_, _)
        go(elems, at) ==
            IF elems = <<>> THEN at
            ELSE IF Head(elems) = <<".", ".">>
                 THEN go(Tail(elems), IF at = <<>> THEN at ELSE SubSeq(at, 1, Len(at) - 1))
                 ELSE IF Head(elems) \in {<<>>, Dot} THEN go(Tail(elems), at)
                 ELSE go(Tail(elems), Append(at, Head(elems)))
    IN  go(Split(p), <<>>)

\* The place a is the place b or lies below it.
AtOrBelow(a, b) == Len(b) <= Len(a) /\ SubSeq(a, 1, Len(b)) = b

\* C26: NewExecutionContext returns a context only for absolute ProjectRoot
\* and WorkingDir, a ProjectRoot with a .vyb directory, a WorkingDir at or
\* below ProjectRoot and, when a target is given, an existing target that
\* is a file at or below WorkingDir; in the context WorkingDir is at or
\* below ProjectRoot, TargetDir is at or below WorkingDir and is the
\* target's directory, or WorkingDir without target; an error comes with no
\* context.
C26_ContextInvariants ==
    cmd.kind = "context" /\ cmd.pc = "returned" =>
        /\ cmd.err # "none" <=> cmd.ec = <<>>
        /\ cmd.ec # <<>> =>
              LET root == PlaceOf(cmd.projectRoot)
                  work == PlaceOf(cmd.workingDir)
              IN  /\ IsAbs(cmd.projectRoot) /\ IsAbs(cmd.workingDir)
                  /\ StatAbs(<<"/">> \o JoinAll(Append(root, <<".", "v", "y", "b">>))) = "dir"
                  /\ AtOrBelow(work, root)
                  /\ cmd.targetFile # Nil =>
                        /\ IsAbs(cmd.targetFile)
                        /\ StatAbs(<<"/">> \o JoinAll(PlaceOf(cmd.targetFile))) = "file"
                        /\ AtOrBelow(PlaceOf(cmd.targetFile), work)
                  /\ PlaceOf(cmd.ec[1].ProjectRoot) = root
                  /\ PlaceOf(cmd.ec[1].WorkingDir) = work
                  /\ AtOrBelow(PlaceOf(cmd.ec[1].WorkingDir), PlaceOf(cmd.ec[1].ProjectRoot))
                  /\ AtOrBelow(PlaceOf(cmd.ec[1].TargetDir), PlaceOf(cmd.ec[1].WorkingDir))
                  /\ PlaceOf(cmd.ec[1].TargetDir) =
                        IF cmd.targetFile = Nil THEN work
                        ELSE LET t == PlaceOf(cmd.targetFile)
                             IN  SubSeq(t, 1, Len(t) - 1)

(***************************************************************************)
(* Channel discipline of annotate                                          *)
(***************************************************************************)

\* C28: annotate never panics from channel misuse: no task is about to
\* close a completion channel that is already closed (pre-closed or closed
\* by a task), no task is about to send on the error channel after annotate
\* closed it, and no goroutine has died of such a panic.
C28_NoChannelPanic ==
    /\ \A m \in Mods :
          /\ pc[m] # "dead"
          /\ pc[m] = "close" => dones[m] = "open"
          /\ pc[m] = "sendErr" => ~errCh.closed
    /\ mainpc # "dead"

(***************************************************************************)
(* A failed child and the task of its parent                               *)
(***************************************************************************)

\* The Summarizer call of c failed and c's completion signal has fired.
FailedAndSignalled(c) == outcome[c] = "err" /\ dones[c] = "closed"

\* C30: a child's failure does not stop the task of its parent: a task
\* waiting for a failed child whose completion signal has fired can go on;
\* the request it sends to the Summarizer names every child, the failed
\* ones with the empty string as public context; a task whose own call
\* succeeded has given its module an Annotation whatever its children's
\* outcomes; and the error channel holds only modules whose own call failed.
C30_ChildFailureDoesNotStopParent ==
    /\ \A m \in Mods :
          /\ (/\ pc[m] = "wait"
              /\ waitIdx[m] <= Len(Awaited(m))
              /\ FailedAndSignalled(Awaited(m)[waitIdx[m]])) => ENABLED TaskWait(m)
          /\ (pc[m] \in {"call", "write"} \/ outcome[m] = "ok") =>
                /\ Len(treq[m]) = Len(Modules(m))
                /\ \A i \in 1..Len(Modules(m)) :
                      /\ treq[m][i].name = Name(Modules(m)[i])
                      /\ outcome[Modules(m)[i]] = "err" => treq[m][i].content = ""
          /\ outcome[m] = "ok" => ~ann[m].isNil
    /\ \A i \in 1..Len(errCh.buf) : outcome[errCh.buf[i]] = "err"

\* A parent got its Annotation from a request that passed "" for a child
\* whose Summarizer call had failed.
C30_Witness ==
    \E m \in Mods : \E i \in 1..Len(Modules(m)) :
        /\ FailedAndSignalled(Modules(m)[i])
        /\ ann[Modules(m)[i]].isNil
        /\ outcome[m] = "ok"
        /\ ~ann[m].isNil
        /\ treq[m][i].content = ""

(***************************************************************************)
(* Parent links of the rebuilt tree                                        *)
(***************************************************************************)

\* C29: in the tree rebuildModule produced the root's Parent is nil, the
\* Parent of every other module is the module of that tree whose Modules
\* list holds it, and every Parent link leads to a module of the tree.
C29_ParentIsRebuiltParent ==
    bld.pc = "done" =>
        /\ bld.tree.Parent = Nil
        /\ \A pc2 \in ParentChildPairs(bld.tree) : pc2[2].Parent = pc2[1].ptr
        /\ \A m \in ModulesOf(bld.tree) :
              m.Parent = Nil \/ \E x \in ModulesOf(bld.tree) : x.ptr = m.Parent

====
